---- MODULE Spec2Model ----
(***************************************************************************)
(* A model of asyncio_trading_bot.                                         *)
(*                                                                         *)
(*   Spec         TradingService (services/trading.py): the three order    *)
(*                placements under retry_async, _order_lock, and           *)
(*                execute_strategy_order with its two protective tasks.    *)
(*   SpecValidate TradingService._validate_balance as a function of its    *)
(*                arguments and of the get_balance reply.                  *)
(*   SpecClient   AsyncBinanceClient (core/client.py): _rate_limit and the  *)
(*                attempt loop of _request, for concurrent callers.        *)
(*                                                                         *)
(* Every coroutine is cut at its awaits: one action runs the code from one *)
(* await to the next, as the asyncio event loop does.  Amounts and prices  *)
(* are whole numbers of an arbitrary unit.  The variables of the parts a   *)
(* specification does not run keep their initial values.                   *)
(***************************************************************************)
EXTENDS Integers, Sequences, FiniteSets, TLC

VARIABLES
    \* ---- TradingService and the gateway it talks to
    task,               \* per asyncio task: the placement call it runs (retry_async + body)
    strat,              \* the execute_strategy_order call
    _order_lock,        \* TradingService._order_lock: the holder, or NoTask
    active_orders,      \* TradingService.active_orders (the orders, keyed by order_id)
    position_tracker,   \* TradingService.position_tracker[symbol]
    exchange,           \* the orders the gateway has accepted
    callers,            \* the callers of this run: the strategy, or two direct callers
    market_price,       \* the symbol's current price at the exchange
    \* ---- _validate_balance alone
    vcall,              \* the arguments and the get_balance reply
    vresult,            \* "none" before the call, then "True" / "False"
    \* ---- AsyncBinanceClient
    now,                \* time.time(), in ticks
    _last_request_time, \* AsyncBinanceClient._last_request_time
    _request_lock,      \* AsyncBinanceClient._request_lock: the holder, or NoTask
    session,            \* AsyncBinanceClient.session: "None" or "open"
    max_retries,        \* BinanceConfig.max_retries
    req,                \* per caller: its _request call
    stamps,             \* the values written to _last_request_time, in order
    \* ---- WebSocketManager: the per-topic connection tasks
    running,            \* WebSocketManager.running
    connections,        \* WebSocketManager.connections: topic -> socket
    _connection_tasks,  \* WebSocketManager._connection_tasks: topic -> task
    _reconnect_delays,  \* WebSocketManager._reconnect_delays
    mt,                 \* per task: its _maintain_connection coroutine
    wsop,               \* the subscribe / unsubscribe / stop call in progress
    \* ---- WebSocketManager._listen and AsyncEventEmitter
    _listeners,         \* AsyncEventEmitter._listeners[event]
    inbox,              \* the messages the open socket has still to yield
    listen,             \* the _listen loop of the topic's connection
    delivered,          \* what the listeners did, in order
    \* ---- topic and event names
    rcall,              \* a subscribe_* call and a message of the stream it opened
    rresult,            \* the event name returned, and the one the message is emitted on
    \* ---- SimpleMAStrategy
    periods,            \* short_period and long_period
    price_history,      \* SimpleMAStrategy.price_history
    ma,                 \* last_short_ma, last_long_ma, current_short_ma, current_long_ma
    _ma_cache,          \* SimpleMAStrategy._ma_cache: key -> (value, timestamp)
    clock,              \* time.time() of the strategy, in ticks
    signal,             \* what the last generate_signal returned
    \* ---- functions of their arguments alone
    fcall,              \* the arguments of the call
    fresult,            \* what the call returned
    \* ---- BaseStrategy.run
    run,                \* the strategy loop: last_signal, position_size, what it handed on
    \* ---- TradingService.execute_dca_order
    dca,                \* the call: its loop index, its sleeps, its orders
    \* ---- AsyncCache
    cacheop,            \* the last get, set or clear and what it returned
    \* ---- AsyncBinanceClient: connect and close
    sess,               \* the sessions ever created, and the connect / close calls
    \* ---- MarketDataService._monitor_price
    mon,                \* the monitor task of one symbol and its subscribers
    \* ---- TradingService.active_orders and the orders' status at the exchange
    tracked,            \* the orders placed, their status, and those in active_orders
    \* ---- WebSocketManager: listeners and the connection of one topic
    topic               \* the listeners of the topic's event and its maintenance task

tradingVars  == <<task, strat, _order_lock, active_orders, position_tracker,
                  exchange, callers, market_price>>
validateVars == <<vcall, vresult>>
clientVars   == <<now, _last_request_time, _request_lock, session, max_retries, req, stamps>>
streamVars   == <<running, connections, _connection_tasks, _reconnect_delays, mt, wsop>>
listenVars   == <<_listeners, inbox, listen, delivered>>
routeVars    == <<rcall, rresult>>
maVars       == <<periods, price_history, ma, _ma_cache, clock, signal>>
otherVars    == <<streamVars, listenVars, routeVars, maVars>>
moreVars     == <<tracked, topic>>
laterVars    == <<fcall, fresult, run, dca, cacheop, sess, mon, moreVars>>
vars         == <<tradingVars, validateVars, clientVars, otherVars, laterVars>>

-----------------------------------------------------------------------------
(* Bounds of the model *)

\* largest free balance a get_balance reply carries
MaxBal == 2
\* largest quantity / quote amount of a call, and largest executed quantity
MaxQty == 2
\* largest market price
MaxPrice == 2

Balances   == 0..MaxBal
Quantities == 1..MaxQty
Prices     == 1..MaxPrice

-----------------------------------------------------------------------------
(* Values *)

\* Python's None for an Optional[float] argument
None == -1
NoTask == "NoTask"
NoOrder == [order_id |-> 0, type |-> "none", side |-> "none", quantity |-> 0,
            executed_quantity |-> 0, quote_quantity |-> 0, by |-> "none"]

\* retry_async(max_retries=3) on the three placements
MaxRetries == 3
\* TradingConfig.stop_loss_percentage and take_profit_percentage, in percent
StopLossPct == 2
TakeProfitPct == 4

Tasks == {"strat", "stop", "profit", "user", "user2"}
DirectCallers == {"user", "user2"}

\* The gateway gives every accepted order a fresh orderId.  A task places at most
\* one order in a run, so the model names the id after the task.
OrderIdOf(t) ==
    CASE t = "strat" -> 1 [] t = "stop" -> 2 [] t = "profit" -> 3
      [] t = "user" -> 4 [] t = "user2" -> 5
Sides == {"BUY", "SELL"}

\* `if x:` on an Optional[float]
Truthy(x) == x # None /\ x # 0

\* what client.get_balance gives: a Balance, None (no row with free > 0 or
\* locked > 0 for the asset), or an exception of the request
BalanceReplies ==
    [k : {"balance"}, free : Balances] \cup {[k |-> "none", free |-> 0], [k |-> "raise", free |-> 0]}

-----------------------------------------------------------------------------
(* TradingService._validate_balance *)

ValidateBalance_strict(side, quantity, price, quote_quantity, reply) ==
    IF reply.k = "raise" THEN FALSE
    ELSE IF side = "BUY" THEN
        IF reply.k = "none" THEN FALSE
        ELSE IF Truthy(quote_quantity) THEN reply.free > quote_quantity
        ELSE IF Truthy(quantity) /\ Truthy(price) THEN reply.free > quantity * price
        ELSE FALSE
    ELSE
        IF reply.k = "none" THEN FALSE
        ELSE IF Truthy(quantity) THEN reply.free > quantity
        ELSE IF Truthy(quote_quantity) /\ Truthy(price) THEN reply.free * price > quote_quantity
        ELSE FALSE

\* free >= quote_quantity / price is compared as free * price >= quote_quantity
\* (price > 0), so that no rounding enters the model
ValidateBalance(side, quantity, price, quote_quantity, reply) ==
    IF reply.k = "raise" THEN FALSE
    ELSE IF side = "BUY" THEN
        IF reply.k = "none" THEN FALSE
        ELSE IF Truthy(quote_quantity) THEN reply.free >= quote_quantity
        ELSE IF Truthy(quantity) /\ Truthy(price) THEN reply.free >= quantity * price
        ELSE FALSE
    ELSE
        IF reply.k = "none" THEN FALSE
        ELSE IF Truthy(quantity) THEN reply.free >= quantity
        ELSE IF Truthy(quote_quantity) /\ Truthy(price) THEN reply.free * price >= quote_quantity
        ELSE FALSE

-----------------------------------------------------------------------------
(* helpers.py *)

\* entry_price * (1 -/+ percentage), in hundredths of the price unit
calculate_stop_loss(entry_price, percentage, side) ==
    IF side = "BUY" THEN entry_price * (100 - percentage)
    ELSE entry_price * (100 + percentage)

calculate_take_profit(entry_price, percentage, side) ==
    IF side = "BUY" THEN entry_price * (100 + percentage)
    ELSE entry_price * (100 - percentage)

-----------------------------------------------------------------------------
(* The parts at rest *)

ValidateIdle == vcall = "none" /\ vresult = "none"

ClientIdle ==
    /\ now = 0
    /\ _last_request_time = 0
    /\ _request_lock = NoTask
    /\ session = "None"
    /\ max_retries = 0
    /\ req = "none"
    /\ stamps = <<>>

StreamIdle ==
    /\ running = FALSE
    /\ connections = {}
    /\ _connection_tasks = {}
    /\ _reconnect_delays = {}
    /\ mt = "none"
    /\ wsop = "none"

ListenIdle == _listeners = <<>> /\ inbox = <<>> /\ listen = "none" /\ delivered = <<>>

\* no subscribe call has returned and no message was routed
NoResult == [returned |-> <<>>, emitted |-> <<>>]
RouteIdle == rcall = "none" /\ rresult = NoResult

MaIdle ==
    /\ periods = "none"
    /\ price_history = <<>>
    /\ ma = "none"
    /\ _ma_cache = {}
    /\ clock = 0
    /\ signal = "none"

OtherIdle == StreamIdle /\ ListenIdle /\ RouteIdle /\ MaIdle

LaterIdle ==
    /\ fcall = "none" /\ fresult = "none"
    /\ run = "none"
    /\ dca = "none"
    /\ cacheop = "none"
    /\ sess = "none"
    /\ mon = "none"
    /\ tracked = "none"
    /\ topic = "none"

MoreIdle == tracked = "none" /\ topic = "none"

TradingIdle ==
    /\ task = "none"
    /\ strat = "none"
    /\ _order_lock = NoTask
    /\ active_orders = {}
    /\ position_tracker = "none"
    /\ exchange = {}
    /\ market_price = 0

-----------------------------------------------------------------------------
(* TradingService: the placements *)

\* pc: where the call is; attempt, last_exception: retry_async's locals; short: the
\* balance check that raised last_exception read a balance and found it too small
\* (it did not fail to read one); sent: the submissions the call has made
IdleTask ==
    [pc |-> "idle", kind |-> "none", side |-> "none", quantity |-> None, price |-> None,
     quote_quantity |-> None, attempt |-> 0, last_exception |-> "none",
     short |-> FALSE, sent |-> 0, ret |-> NoOrder]

NoPosition ==
    [present |-> FALSE, total_quantity |-> 0, total_cost |-> 0,
     average_price |-> <<0, 1>>, orders |-> <<>>]

IdleStrat ==
    [pc |-> "idle", side |-> "none", risk_amount |-> 0, current_price |-> 0,
     result |-> "none", cause |-> "none", free |-> None]

\* a fresh call of place_market_order / place_limit_order / place_stop_loss_order
NewCall(kind, side, quantity, price, quote_quantity) ==
    [IdleTask EXCEPT !.pc = "created", !.kind = kind, !.side = side, !.quantity = quantity,
                     !.price = price, !.quote_quantity = quote_quantity]

OrderTypeOf(kind) ==
    CASE kind = "market" -> "MARKET"
      [] kind = "limit"  -> "LIMIT"
      [] kind = "stop"   -> "STOP_LOSS"
      [] OTHER           -> "none"

\* which placements run their body inside `async with self._order_lock`
TakesOrderLock(kind) == kind \in {"market", "limit"}

\* The start of one attempt of the wrapped body, up to its first await:
\* place_stop_loss_order goes straight to client.place_order; the two others
\* enter _order_lock (at once when it is free) and then await _validate_balance.
\* Gives <<the task's record, the lock>>.
BeginAttempt(rec, t, lock) ==
    IF ~TakesOrderLock(rec.kind)
    THEN <<[rec EXCEPT !.pc = "submit", !.sent = @ + 1], lock>>
    ELSE IF lock = NoTask
         THEN <<[rec EXCEPT !.pc = "validate"], t>>
         ELSE <<[rec EXCEPT !.pc = "lock"], lock>>

\* retry_async: `except Exception` and `if attempt < max_retries - 1`: whatever
\* the exception, another attempt follows a backoff sleep unless this was the last
RetryAfter(attempt, cause) == attempt < MaxRetries - 1

\* The body raised OrderError(cause) (its `except Exception`), the wrapper caught it
FailAttempt(rec, cause) ==
    [rec EXCEPT !.last_exception = cause, !.short = FALSE,
                !.pc = IF RetryAfter(rec.attempt, cause) THEN "backoff" ELSE "raised"]

ReleasedBy_kept(t, lock) == lock
\* `async with self._order_lock` is left: the lock is released by its holder
ReleasedBy(t, lock) == IF lock = t THEN NoTask ELSE lock

OppositeSide_same(side) == side

\* opposite_side = SELL if side == BUY else BUY
OppositeSide(side) == IF side = "BUY" THEN "SELL" ELSE "BUY"

\* _update_position_tracker
UpdatePositionTracker(pos, order) ==
    LET q == IF order.side = "BUY" THEN pos.total_quantity + order.executed_quantity
             ELSE pos.total_quantity - order.executed_quantity
        c == IF order.side = "BUY" THEN pos.total_cost + order.quote_quantity
             ELSE pos.total_cost - order.quote_quantity
    IN [present |-> TRUE, total_quantity |-> q, total_cost |-> c,
        average_price |-> IF q > 0 THEN <<c, q>> ELSE pos.average_price,
        orders |-> Append(pos.orders, order.order_id)]

\* execute_strategy_order after `await self.place_market_order(...)` ended, in the
\* same task and with no await in between: on an order, the two protective tasks are
\* created (lines 178-190) and the call awaits gather; on OrderError, the call's own
\* `except Exception` raises OrderError.  Gives <<task, strat>>.
StratContinue(tk, st) ==
    LET main == tk["strat"]
        opp  == OppositeSide(st.side)
    IN IF st.pc # "primary" THEN <<tk, st>>
       ELSE IF main.pc = "returned"
       THEN <<[tk EXCEPT
                 !["stop"] = NewCall("stop", opp, main.ret.executed_quantity,
                                     calculate_stop_loss(st.current_price, StopLossPct, st.side), None),
                 !["profit"] = NewCall("limit", opp, main.ret.executed_quantity,
                                       calculate_take_profit(st.current_price, TakeProfitPct, st.side), None)],
               [st EXCEPT !.pc = "gather"]>>
       ELSE IF main.pc = "raised"
       THEN <<tk, [st EXCEPT !.pc = "done", !.result = "OrderError", !.cause = "primary"]>>
       ELSE <<tk, st>>

\* ---- actions

\* A caller other than the strategy calls one placement.  The second direct
\* caller is there to contend with the first: it calls with the unit amount.
UserCall(u, kind, side, amount) ==
    /\ u \in callers \cap DirectCallers
    /\ u = "user2" => amount = 1
    /\ task[u].pc = "idle"
    /\ LET call == CASE kind = "market" -> NewCall(kind, side, None, None, amount)
                     [] kind = "limit"  -> NewCall(kind, side, amount, market_price, None)
                     [] kind = "stop"   -> NewCall(kind, side, amount, market_price, None)
           b == BeginAttempt(call, u, _order_lock)
       IN /\ task' = [task EXCEPT ![u] = b[1]]
          /\ _order_lock' = b[2]
    /\ UNCHANGED <<strat, active_orders, position_tracker, exchange, callers, market_price, validateVars, otherVars, clientVars, laterVars>>

\* A protective task created by execute_strategy_order gets to run.
ChildStart(t) ==
    /\ t \in {"stop", "profit"}
    /\ task[t].pc = "created"
    /\ LET b == BeginAttempt(task[t], t, _order_lock)
       IN /\ task' = [task EXCEPT ![t] = b[1]]
          /\ _order_lock' = b[2]
    /\ UNCHANGED <<strat, active_orders, position_tracker, exchange, callers, market_price, validateVars, otherVars, clientVars, laterVars>>

\* A task waiting for _order_lock gets it.
AcquireOrderLock(t) ==
    /\ task[t].pc = "lock"
    /\ _order_lock = NoTask
    /\ _order_lock' = t
    /\ task' = [task EXCEPT ![t].pc = "validate"]
    /\ UNCHANGED <<strat, active_orders, position_tracker, exchange, callers, market_price, validateVars, otherVars, clientVars, laterVars>>

\* get_balance answers inside _validate_balance; the body goes on to its next
\* await or raises InsufficientBalanceError, wrapped as OrderError.
BalanceReply(t, reply) ==
    /\ task[t].pc = "validate"
    /\ LET rec  == task[t]
           ok   == ValidateBalance(rec.side, rec.quantity, rec.price, rec.quote_quantity, reply)
           rec2 == IF ok
                   THEN IF rec.kind = "market" /\ rec.side = "SELL"
                        THEN [rec EXCEPT !.pc = "price"]
                        ELSE [rec EXCEPT !.pc = "submit", !.sent = @ + 1]
                   ELSE [FailAttempt(rec, "InsufficientBalance") EXCEPT
                            !.short = reply.k # "raise"]
           c    == StratContinue([task EXCEPT ![t] = rec2], strat)
       IN /\ task' = c[1]
          /\ strat' = IF t = "strat" THEN c[2] ELSE strat
          /\ _order_lock' = IF ok THEN _order_lock ELSE ReleasedBy(t, _order_lock)
    /\ UNCHANGED <<active_orders, position_tracker, exchange, callers, market_price, validateVars, otherVars, clientVars, laterVars>>

\* The gateway answers the get_price (market SELL) or the order submission.
\* An accepted order is recorded in active_orders and, for a market order, in
\* position_tracker; a failure is wrapped as OrderError.
OrderReply(t, reply) ==
    /\ task[t].pc \in {"price", "submit"}
    /\ LET rec   == task[t]
           order == [order_id |-> OrderIdOf(t), type |-> OrderTypeOf(rec.kind), side |-> rec.side,
                     quantity |-> IF rec.kind = "market" /\ rec.side = "BUY"
                                  THEN reply.executed ELSE rec.quantity,
                     executed_quantity |-> IF rec.kind = "market" THEN reply.executed ELSE 0,
                     quote_quantity |-> IF rec.kind = "market"
                                        THEN reply.executed * market_price ELSE 0,
                     by |-> t]
           placed == rec.pc = "submit" /\ reply.k = "ok"
           rec2  == IF reply.k = "raise" THEN FailAttempt(rec, "GatewayError")
                    ELSE IF rec.pc = "price"
                    THEN [rec EXCEPT !.pc = "submit", !.sent = @ + 1,
                                     !.quantity = rec.quote_quantity \div market_price]
                    ELSE [rec EXCEPT !.pc = "returned", !.ret = order]
           c     == StratContinue([task EXCEPT ![t] = rec2], strat)
       IN /\ task' = c[1]
          /\ strat' = IF t = "strat" THEN c[2] ELSE strat
          /\ _order_lock' = IF rec2.pc = "submit" THEN _order_lock ELSE ReleasedBy(t, _order_lock)
          /\ exchange' = IF placed THEN exchange \cup {order} ELSE exchange
          /\ active_orders' = IF placed THEN active_orders \cup {order} ELSE active_orders
          /\ position_tracker' = IF placed /\ rec.kind = "market"
                                 THEN UpdatePositionTracker(position_tracker, order)
                                 ELSE position_tracker
    /\ UNCHANGED <<callers, market_price, validateVars, otherVars, clientVars, laterVars>>

\* The backoff sleep of retry_async ends: the next attempt begins.
RetryWake(t) ==
    /\ task[t].pc = "backoff"
    /\ LET b == BeginAttempt([task[t] EXCEPT !.attempt = @ + 1], t, _order_lock)
       IN /\ task' = [task EXCEPT ![t] = b[1]]
          /\ _order_lock' = b[2]
    /\ UNCHANGED <<strat, active_orders, position_tracker, exchange, callers, market_price, validateVars, otherVars, clientVars, laterVars>>

-----------------------------------------------------------------------------
(* TradingService.execute_strategy_order *)

\* lines 164-173: the prices are computed and the call awaits _validate_balance
StratCall(side, risk_amount) ==
    /\ "strat" \in callers
    /\ strat.pc = "idle"
    /\ strat' = [strat EXCEPT !.pc = "validate", !.side = side, !.risk_amount = risk_amount,
                              !.current_price = market_price]
    /\ UNCHANGED <<task, _order_lock, active_orders, position_tracker, exchange,
                   callers, market_price, validateVars, otherVars, clientVars, laterVars>>

\* line 173-177: get_balance answers; on a passed check place_market_order is
\* called in the same task, otherwise InsufficientBalanceError becomes OrderError
StratBalanceReply(reply) ==
    /\ strat.pc = "validate"
    /\ IF ValidateBalance(strat.side, None, None, strat.risk_amount, reply)
       THEN LET b == BeginAttempt(NewCall("market", strat.side, None, None, strat.risk_amount),
                                  "strat", _order_lock)
            IN /\ task' = [task EXCEPT !["strat"] = b[1]]
               /\ _order_lock' = b[2]
               /\ strat' = [strat EXCEPT !.pc = "primary"]
       ELSE /\ strat' = [strat EXCEPT !.pc = "done", !.result = "OrderError",
                                      !.cause = "InsufficientBalance",
                                      !.free = IF reply.k = "balance" THEN reply.free ELSE None]
            /\ UNCHANGED <<task, _order_lock>>
    /\ UNCHANGED <<active_orders, position_tracker, exchange, callers, market_price, validateVars, otherVars, clientVars, laterVars>>

GatherOutcome_swallow(stop_pc, profit_pc) ==
    IF {stop_pc, profit_pc} \subseteq {"returned", "raised"} THEN "return" ELSE "pending"

\* asyncio.gather(stop_task, profit_task) without return_exceptions: the first
\* exception of a child is raised in the awaiting call at once; otherwise the
\* results are returned when both children have returned
GatherOutcome(stop_pc, profit_pc) ==
    IF "raised" \in {stop_pc, profit_pc} THEN "raise"
    ELSE IF {stop_pc, profit_pc} = {"returned"} THEN "return"
    ELSE "pending"

\* line 193-211: the call resumes from gather
StratGather ==
    /\ strat.pc = "gather"
    /\ LET g == GatherOutcome(task["stop"].pc, task["profit"].pc)
       IN /\ g # "pending"
          /\ strat' = IF g = "return"
                      THEN [strat EXCEPT !.pc = "done", !.result = "ok"]
                      ELSE [strat EXCEPT !.pc = "done", !.result = "OrderError",
                                         !.cause = "protective"]
    /\ UNCHANGED <<task, _order_lock, active_orders, position_tracker, exchange,
                   callers, market_price, validateVars, otherVars, clientVars, laterVars>>

OrderReplies == [k : {"ok"}, executed : Quantities] \cup {[k |-> "raise", executed |-> 0]}

TradingInit ==
    /\ task = [t \in Tasks |-> IdleTask]
    /\ strat = IdleStrat
    /\ _order_lock = NoTask
    /\ active_orders = {}
    /\ position_tracker = NoPosition
    /\ exchange = {}
    /\ callers \in {{"strat"}, DirectCallers}

TradingNext ==
    \/ \E u \in DirectCallers, kind \in {"market", "limit", "stop"}, side \in Sides,
          amount \in Quantities : UserCall(u, kind, side, amount)
    \/ \E t \in Tasks : ChildStart(t)
    \/ \E t \in Tasks : AcquireOrderLock(t)
    \/ \E t \in Tasks, reply \in BalanceReplies : BalanceReply(t, reply)
    \/ \E t \in Tasks, reply \in OrderReplies : OrderReply(t, reply)
    \/ \E t \in Tasks : RetryWake(t)
    \/ \E side \in Sides, risk_amount \in Quantities : StratCall(side, risk_amount)
    \/ \E reply \in BalanceReplies : StratBalanceReply(reply)
    \/ StratGather

-----------------------------------------------------------------------------
(* The order-execution service with its callers *)

Init == TradingInit /\ market_price \in Prices /\ ValidateIdle /\ ClientIdle /\ OtherIdle /\ LaterIdle

Next == TradingNext

Spec == Init /\ [][Next]_vars

-----------------------------------------------------------------------------
(* Claims about the order-execution service *)

Submitting == {t \in Tasks : task[t].pc = "submit"}
Bracket == {"strat", "stop", "profit"}
PlacedBy(t) == {o \in exchange : o.by = t}

\* C1 (as stated): at most one order submission to the gateway is in flight at a
\* time, and every submission is made while its caller holds _order_lock.
C1_OneSubmissionUnderLock ==
    /\ Cardinality(Submitting) <= 1
    /\ \A t \in Submitting : _order_lock = t

\* What the bracket leaves on the exchange, whatever the outcome: at most one
\* primary market order, on the requested side, and protective orders only on the
\* opposite side, sized to the primary's executed_quantity, one per kind, sent only
\* after the primary has completed; both protective tasks exist when the call
\* awaits gather.
BracketShape ==
    LET main == task["strat"].ret
        opp  == IF strat.side = "BUY" THEN "SELL" ELSE "BUY"
    IN /\ \A o \in PlacedBy("strat") : o = main /\ o.type = "MARKET" /\ o.side = strat.side
       /\ \A o \in PlacedBy("stop") :
             o.type = "STOP_LOSS" /\ o.side = opp /\ o.quantity = main.executed_quantity
       /\ \A o \in PlacedBy("profit") :
             o.type = "LIMIT" /\ o.side = opp /\ o.quantity = main.executed_quantity
       /\ \A t \in Bracket : Cardinality(PlacedBy(t)) <= 1
       /\ \A c \in {"stop", "profit"} :
             task[c].pc # "idle" => task["strat"].pc = "returned" /\ main \in exchange
       /\ strat.pc = "gather" => task["stop"].pc # "idle" /\ task["profit"].pc # "idle"

\* C2 (as stated): a successful execute_strategy_order has sent exactly one primary
\* market order and exactly two protective orders, one stop-loss and one
\* take-profit limit: each placement made one submission to the gateway.
C2_ExactlyOneSubmissionEach ==
    /\ BracketShape
    /\ strat.result = "ok" =>
          /\ \A t \in Bracket : Cardinality(PlacedBy(t)) = 1
          /\ \A t \in Bracket : task[t].sent = 1

\* C2 (amended): a successful execute_strategy_order has placed exactly one primary
\* market order on the requested side and, after it completed, exactly one
\* stop-loss and one take-profit limit order on the opposite side with the
\* primary's executed_quantity; each of the three was submitted between one and
\* max_retries times, every submission but the accepted one having failed; both
\* protective placements are started before the result of either is awaited.
C2_OnePlacedOrderEach ==
    /\ BracketShape
    /\ strat.result = "ok" =>
          /\ \A t \in Bracket : Cardinality(PlacedBy(t)) = 1
          /\ \A t \in Bracket :
                task[t].sent \in 1..MaxRetries /\ task[t].sent <= task[t].attempt + 1

\* a successful bracket whose primary order needed a second submission
C2_Witness ==
    /\ strat.result = "ok"
    /\ task["strat"].sent = 2
    /\ task["stop"].ret.quantity = task["strat"].ret.executed_quantity

\* C3: if the primary order fails (or is never sent for lack of balance), the call
\* fails with OrderError and no protective order is sent; if both protective
\* orders fail, the call fails with OrderError; whatever was placed stays on the
\* exchange and in active_orders.
C3_FailurePropagatesNoUnwind ==
    /\ task["strat"].pc = "raised" => strat.pc = "done" /\ strat.cause = "primary"
    /\ (strat.pc = "done" /\ strat.cause \in {"primary", "InsufficientBalance"}) =>
          /\ strat.result = "OrderError"
          /\ task["stop"].pc = "idle" /\ task["profit"].pc = "idle"
          /\ PlacedBy("stop") = {} /\ PlacedBy("profit") = {}
    /\ (strat.pc = "done" /\ task["stop"].pc = "raised" /\ task["profit"].pc = "raised") =>
          strat.result = "OrderError"
    /\ \A t \in Bracket : task[t].pc = "returned" =>
          task[t].ret \in exchange /\ task[t].ret \in active_orders
    /\ \A o \in exchange : o.by \in Bracket => o \in active_orders

\* the primary order is placed, both protective orders have failed for good, the
\* call has failed, and the primary order is still on the exchange and active
C3_Witness ==
    /\ strat.pc = "done" /\ strat.result = "OrderError"
    /\ task["stop"].pc = "raised" /\ task["profit"].pc = "raised"
    /\ task["strat"].ret \in exchange \cap active_orders

\* C4 (as stated): a SELL is validated against the base asset's free balance: the
\* SELL strategy order for quote amount Q at price P is refused for lack of balance
\* only when the base-asset free balance is below Q / P.
C4_SellRefusedOnlyWhenShort ==
    (strat.pc = "done" /\ strat.side = "SELL" /\ strat.cause = "InsufficientBalance"
        /\ strat.free # None)
    => strat.free * strat.current_price < strat.risk_amount

\* C5 (as stated): a place_market_order or place_limit_order call that found the
\* free balance insufficient fails without sending an order-placement request: it
\* never goes on to a submission, nor returns an order.
C5_RejectedCallSendsNothing ==
    \A t \in Tasks :
        (task[t].kind \in {"market", "limit"} /\ task[t].short)
        => task[t].pc \notin {"price", "submit", "returned"}

\* C6 (as stated): a placement rejected for insufficient balance is not retried:
\* the call has failed, with no backoff wait and no further attempt.
C6_RejectionNotRetried ==
    \A t \in Tasks :
        (task[t].kind \in {"market", "limit"} /\ task[t].short)
        => task[t].pc = "raised"

-----------------------------------------------------------------------------
(* _validate_balance on its own *)

ValidateCalls ==
    [side : Sides, quantity : {None, 0} \cup Quantities, price : {None} \cup Prices,
     quote_quantity : {None, 0} \cup Quantities, reply : BalanceReplies]

ValidateInit ==
    /\ vcall \in ValidateCalls
    /\ vresult = "none"
    /\ callers = {}
    /\ TradingIdle /\ ClientIdle /\ OtherIdle /\ LaterIdle

\* await self._validate_balance(symbol, side, quantity, price, quote_quantity)
Validate ==
    /\ vresult = "none"
    /\ vresult' = IF ValidateBalance(vcall.side, vcall.quantity, vcall.price,
                                     vcall.quote_quantity, vcall.reply)
                  THEN "True" ELSE "False"
    /\ UNCHANGED <<vcall, tradingVars, clientVars, otherVars, laterVars>>

ValidateNext == Validate

SpecValidate == ValidateInit /\ [][ValidateNext]_vars

\* the quote amount a BUY needs, for the two ways the service passes it: as
\* quote_quantity alone (market), or as quantity and price (limit)
QuoteNeeded(c) ==
    IF c.quantity = None /\ c.price = None THEN c.quote_quantity
    ELSE IF c.quote_quantity = None /\ c.quantity # None /\ c.price # None
         THEN c.quantity * c.price
         ELSE None

\* C7: for a BUY that needs quote amount X > 0 against a quote-asset free balance
\* Y >= 0, _validate_balance returns True if and only if Y >= X.
C7_BuyAllowedIffCovered ==
    (/\ vresult # "none"
     /\ vcall.side = "BUY"
     /\ vcall.reply.k = "balance"
     /\ QuoteNeeded(vcall) # None /\ QuoteNeeded(vcall) > 0)
    => (vresult = "True" <=> vcall.reply.free >= QuoteNeeded(vcall))

\* the boundary: a BUY limit of quantity * price exactly the free balance is allowed
C7_Witness ==
    /\ vresult = "True"
    /\ vcall.side = "BUY"
    /\ vcall.quote_quantity = None
    /\ vcall.reply.k = "balance"
    /\ vcall.reply.free = vcall.quantity * vcall.price

-----------------------------------------------------------------------------
(* AsyncBinanceClient: _rate_limit and _request *)

\* BinanceConfig.rate_limit_delay (0.1 s), in ticks of 0.05 s
RateLimitDelay == 2
\* the last tick of the clock
MaxTime == 6
\* largest configured max_retries
MaxRetriesCfg == 4

\* "r" calls _request and is followed to its end; "a" and "b" are further callers,
\* followed through _rate_limit only
RequestCaller == "r"
ClientCallers == {"r", "a", "b"}

RECURSIVE Pow2(_)
Pow2(n) == IF n = 0 THEN 1 ELSE 2 * Pow2(n - 1)

IdleReq ==
    [pc |-> "idle", wake |-> 0, attempt |-> 0, log |-> <<>>, waits |-> <<>>,
     outcome |-> "none", message |-> "", error_code |-> "None",
     body |-> [k |-> "none", status |-> 0, msg |-> "absent", code |-> "absent"]]

\* what one session.request gives: a response (status and parsed body) or an
\* aiohttp.ClientError; a body field that is missing is "absent"
Statuses == {200, 429, 401, 400, 500}
Responses ==
    [k : {"response"}, status : Statuses, msg : {"Invalid symbol.", "absent"},
     code : {"-1121", "absent"}]
    \cup {[k |-> "ClientError", status |-> 0, msg |-> "absent", code |-> "absent"]}

StatusText(status) ==
    CASE status = 400 -> "HTTP 400" [] status = 500 -> "HTTP 500" [] OTHER -> "HTTP"

RateLimitSleep_none(current_time, last) == 0

\* _rate_limit, lines 71-74: how long the caller sleeps inside the lock
RateLimitSleep(current_time, last) ==
    LET time_since_last == current_time - last
    IN IF time_since_last < RateLimitDelay THEN RateLimitDelay - time_since_last ELSE 0

BackoffDelay_linear(attempt) == 2 * attempt

\* 2 ** attempt seconds
BackoffDelay(attempt) == Pow2(attempt)

RetryRequest_always(attempt) == TRUE

\* `if attempt < self.config.max_retries - 1`
RetryRequest(attempt) == attempt < max_retries - 1

\* _request after _rate_limit, up to its first await (lines 84-98): the session is
\* opened if there is none, and the first attempt is sent; with max_retries = 0
\* the loop is empty and line 129 raises
AfterRateLimit(c, r) ==
    IF c # RequestCaller THEN [r EXCEPT !.pc = "done", !.outcome = "passed"]
    ELSE IF max_retries > 0 THEN [r EXCEPT !.pc = "http"]
    ELSE [r EXCEPT !.pc = "done", !.outcome = "BinanceAPIError",
                   !.message = "Max retries exceeded"]

\* the body of `async with self._request_lock` up to its end or to the sleep
InsideRateLimit(c) ==
    LET d == RateLimitSleep(now, _last_request_time)
    IN IF d > 0
       THEN /\ req' = [req EXCEPT ![c] = [@ EXCEPT !.pc = "sleep", !.wake = now + d]]
            /\ _request_lock' = c
            /\ UNCHANGED <<_last_request_time, stamps, session>>
       ELSE /\ req' = [req EXCEPT ![c] = AfterRateLimit(c, @)]
            /\ _last_request_time' = now
            /\ stamps' = Append(stamps, now)
            /\ _request_lock' = NoTask
            /\ session' = IF c = RequestCaller THEN "open" ELSE session

\* ---- actions

\* a caller calls _request and enters _rate_limit
Request(c) ==
    /\ c \in callers
    /\ req[c].pc = "idle"
    /\ IF _request_lock = NoTask
       THEN InsideRateLimit(c)
       ELSE /\ req' = [req EXCEPT ![c].pc = "lock"]
            /\ UNCHANGED <<_last_request_time, stamps, session, _request_lock>>
    /\ UNCHANGED <<now, max_retries, callers, validateVars, otherVars, task, strat, _order_lock,
                   active_orders, position_tracker, exchange, market_price, laterVars>>

\* a caller queued for _request_lock gets it
AcquireRequestLock(c) ==
    /\ req[c].pc = "lock"
    /\ _request_lock = NoTask
    /\ InsideRateLimit(c)
    /\ UNCHANGED <<now, max_retries, callers, validateVars, otherVars, task, strat, _order_lock,
                   active_orders, position_tracker, exchange, market_price, laterVars>>

\* asyncio.sleep(rate_limit_delay - time_since_last) ends, not before its time:
\* line 75 stores time.time() and the lock is released
RateLimitWake(c) ==
    /\ req[c].pc = "sleep"
    /\ now >= req[c].wake
    /\ req' = [req EXCEPT ![c] = AfterRateLimit(c, @)]
    /\ _last_request_time' = now
    /\ stamps' = Append(stamps, now)
    /\ _request_lock' = NoTask
    /\ session' = IF c = RequestCaller THEN "open" ELSE session
    /\ UNCHANGED <<now, max_retries, callers, validateVars, otherVars, task, strat, _order_lock,
                   active_orders, position_tracker, exchange, market_price, laterVars>>

Classify_retry401(resp) ==
    IF resp.k = "ClientError" THEN "transport"
    ELSE IF resp.status = 200 THEN "ok"
    ELSE IF resp.status \in {429, 401} THEN "rate"
    ELSE "api"

\* the branch of lines 106-127 an answer takes
Classify(resp) ==
    IF resp.k = "ClientError" THEN "transport"
    ELSE IF resp.status = 200 THEN "ok"
    ELSE IF resp.status = 429 THEN "rate"
    ELSE IF resp.status = 401 THEN "auth"
    ELSE "api"

\* the answer to one attempt (lines 98-127)
HttpReply(c, resp) ==
    /\ req[c].pc = "http"
    /\ LET r == [req[c] EXCEPT !.log = Append(@, resp.status)]
           retry == [r EXCEPT !.pc = "backoff", !.waits = Append(@, BackoffDelay(r.attempt))]
           branch == Classify(resp)
       IN req' = [req EXCEPT ![c] =
             CASE branch = "ok" -> [r EXCEPT !.pc = "done", !.outcome = "ok"]
               [] branch = "rate" ->
                    IF RetryRequest(r.attempt) THEN retry
                    ELSE [r EXCEPT !.pc = "done", !.outcome = "RateLimitError"]
               [] branch = "auth" -> [r EXCEPT !.pc = "done", !.outcome = "AuthenticationError"]
               [] branch = "api" ->
                    [r EXCEPT !.pc = "done", !.outcome = "BinanceAPIError", !.body = resp,
                              !.message = IF resp.msg = "absent" THEN StatusText(resp.status)
                                          ELSE resp.msg,
                              !.error_code = IF resp.code = "absent" THEN "None" ELSE resp.code]
               [] branch = "transport" ->
                    IF RetryRequest(r.attempt) THEN retry
                    ELSE [r EXCEPT !.pc = "done", !.outcome = "ConnectionError"]]
    /\ UNCHANGED <<now, _last_request_time, _request_lock, session, stamps, max_retries,
                   callers, validateVars, otherVars, task, strat, _order_lock, active_orders,
                   position_tracker, exchange, market_price, laterVars>>

\* asyncio.sleep(2 ** attempt) ends: `continue`, the next attempt is sent; were
\* the range exhausted, the statement after the loop (line 129) would raise
BackoffWake(c) ==
    /\ req[c].pc = "backoff"
    /\ req' = [req EXCEPT ![c] =
          IF @.attempt + 1 < max_retries
          THEN [@ EXCEPT !.pc = "http", !.attempt = @ + 1]
          ELSE [@ EXCEPT !.pc = "done", !.outcome = "BinanceAPIError",
                         !.message = "Max retries exceeded"]]
    /\ UNCHANGED <<now, _last_request_time, _request_lock, session, stamps, max_retries,
                   callers, validateVars, otherVars, task, strat, _order_lock, active_orders,
                   position_tracker, exchange, market_price, laterVars>>

\* a caller that is followed through _rate_limit only calls again
CallAgain(c) ==
    /\ c # RequestCaller
    /\ req[c].pc = "done"
    /\ req' = [req EXCEPT ![c] = IdleReq]
    /\ UNCHANGED <<now, _last_request_time, _request_lock, session, stamps, max_retries,
                   callers, validateVars, otherVars, task, strat, _order_lock, active_orders,
                   position_tracker, exchange, market_price, laterVars>>

\* time passes
Tick ==
    /\ now < MaxTime
    /\ now' = now + 1
    /\ UNCHANGED <<_last_request_time, _request_lock, session, stamps, max_retries, req,
                   callers, validateVars, otherVars, task, strat, _order_lock, active_orders,
                   position_tracker, exchange, market_price, laterVars>>

\* time.time() is far beyond rate_limit_delay when the client is constructed with
\* _last_request_time = 0
ClientInit ==
    /\ now = RateLimitDelay
    /\ _last_request_time = 0
    /\ _request_lock = NoTask
    /\ session = "None"
    /\ max_retries \in 0..MaxRetriesCfg
    /\ req = [c \in ClientCallers |-> IdleReq]
    /\ stamps = <<>>
    /\ callers = ClientCallers
    /\ TradingIdle /\ ValidateIdle /\ OtherIdle /\ LaterIdle

ClientNext ==
    \/ \E c \in ClientCallers : Request(c)
    \/ \E c \in ClientCallers : AcquireRequestLock(c)
    \/ \E c \in ClientCallers : RateLimitWake(c)
    \/ \E c \in ClientCallers, resp \in Responses : HttpReply(c, resp)
    \/ \E c \in ClientCallers : BackoffWake(c)
    \/ \E c \in ClientCallers : CallAgain(c)
    \/ Tick

SpecClient == ClientInit /\ [][ClientNext]_vars

-----------------------------------------------------------------------------
(* Claims on _rate_limit and _request *)

TheRequest == req[RequestCaller]
Retried == {0, 429}
Fatal == {401, 400, 500}

\* C8: at most one caller is inside the critical section of _rate_limit, it is
\* the holder of _request_lock, and successive values written to
\* _last_request_time are at least rate_limit_delay apart
C8_RateLimitSerialised ==
    /\ Cardinality({c \in ClientCallers : req[c].pc = "sleep"}) <= 1
    /\ \A c \in ClientCallers : req[c].pc = "sleep" <=> _request_lock = c
    /\ \A i \in 1..(Len(stamps) - 1) : stamps[i + 1] - stamps[i] >= RateLimitDelay
    /\ stamps # <<>> => _last_request_time = stamps[Len(stamps)]

C8_Witness ==
    /\ Len(stamps) >= 2
    /\ \E c, d \in ClientCallers : req[c].pc = "sleep" /\ req[d].pc = "lock"

\* C9: never more than max_retries attempts; each attempt k < max_retries - 1
\* that fails by transport error or 429 is followed by a wait of 2^k and one
\* more attempt, the waits non-decreasing; the first 200 ends the call with
\* success; max_retries = 3 and two transport failures then a 200 give
\* success after the waits 1, 2
C9_BoundedExponentialRetry ==
    LET r == TheRequest
    IN /\ Len(r.log) <= max_retries
       /\ \A i \in 1..Len(r.waits) :
            /\ r.waits[i] = Pow2(i - 1)
            /\ r.log[i] \in Retried
            /\ i - 1 < max_retries - 1
            /\ i > 1 => r.waits[i - 1] <= r.waits[i]
       /\ \A i \in 1..Len(r.log) :
            /\ (r.log[i] \in Retried /\ i - 1 < max_retries - 1) => Len(r.waits) >= i
            /\ r.log[i] = 200 => i = Len(r.log) /\ r.pc = "done" /\ r.outcome = "ok"
       /\ Len(r.log) = Len(r.waits) + (IF r.pc = "done" /\ max_retries > 0 THEN 1 ELSE 0)
       /\ (max_retries = 3 /\ r.log = <<0, 0, 200>>) => r.outcome = "ok" /\ r.waits = <<1, 2>>

C9_Witness ==
    /\ max_retries = 3
    /\ TheRequest.log = <<0, 0, 200>>
    /\ TheRequest.outcome = "ok"

\* C10: a 401 ends the call with AuthenticationError, any other status than 200,
\* 429 and 401 with BinanceAPIError carrying the body's msg and code; the
\* attempt is the last one and no wait follows it
C10_FatalStatusFailsAtOnce ==
    LET r == TheRequest
    IN \A i \in 1..Len(r.log) :
         r.log[i] \in Fatal =>
            /\ i = Len(r.log)
            /\ Len(r.waits) = i - 1
            /\ r.pc = "done"
            /\ r.log[i] = 401 => r.outcome = "AuthenticationError"
            /\ r.log[i] # 401 =>
                 /\ r.outcome = "BinanceAPIError"
                 /\ r.body.msg # "absent" => r.message = r.body.msg
                 /\ r.body.code # "absent" => r.error_code = r.body.code

C10_Witness ==
    /\ TheRequest.attempt >= 1
    /\ TheRequest.log[Len(TheRequest.log)] = 500
    /\ TheRequest.outcome = "BinanceAPIError"
    /\ TheRequest.message = "Invalid symbol."
    /\ TheRequest.error_code = "-1121"

\* every attempt of the call was made and failed by transport error or 429
Exhausted ==
    /\ max_retries >= 1
    /\ TheRequest.pc = "done"
    /\ Len(TheRequest.log) = max_retries
    /\ \A i \in 1..max_retries : TheRequest.log[i] \in Retried

\* C11 (as stated): when every one of the max_retries >= 1 attempts fails with a
\* retryable failure, the call fails with BinanceAPIError itself, raised by the
\* 'Max retries exceeded' statement after the loop.
C11_ExhaustionIsGenericError ==
    Exhausted =>
        TheRequest.outcome = "BinanceAPIError" /\ TheRequest.message = "Max retries exceeded"

\* C11 (amended): when every one of the max_retries >= 1 attempts fails with a
\* retryable failure, the call fails with the error of its last attempt:
\* RateLimitError after a 429, ConnectionError after a transport error; the
\* 'Max retries exceeded' BinanceAPIError is raised only when max_retries is 0.
C11_ExhaustionKeepsLastFailure ==
    /\ Exhausted =>
          TheRequest.outcome =
             IF TheRequest.log[max_retries] = 429 THEN "RateLimitError" ELSE "ConnectionError"
    /\ TheRequest.message = "Max retries exceeded" => max_retries = 0

C11_Witness ==
    /\ max_retries = 3
    /\ TheRequest.log = <<429, 0, 429>>
    /\ TheRequest.outcome = "RateLimitError"

-----------------------------------------------------------------------------
(* WebSocketManager: one maintenance task per subscribed topic *)

\* WebSocketManager.initial_reconnect_delay and max_reconnect_delay, in seconds
InitialReconnectDelay == 1
MaxReconnectDelay == 60

\* tasks created in a run, calls made by the user of the manager, and
\* connection attempts that fail in a row
MaxTasks == 2
MaxOps == 4
MaxFails == 8

Topics == {"btcusdt@ticker", "btcusdt@trade"}
TaskIds == 1..MaxTasks
NoEntry == 0

FreeTask ==
    [stream |-> "none", pc |-> "free", reconnect_delay |-> 0, cancel |-> FALSE,
     sock |-> "none", fails |-> 0, slept |-> 0, before |-> "none", stale |-> FALSE]

IdleOp ==
    [pc |-> "idle", stream |-> "none", idx |-> 0, ops |-> 0, last |-> "none",
     unsubscribed |-> {}, awaited |-> {}]

Min(a, b) == IF a <= b THEN a ELSE b

NextDelay_uncapped(reconnect_delay) == reconnect_delay * 2

\* reconnect_delay = min(reconnect_delay * 2, self.max_reconnect_delay)
NextDelay(reconnect_delay) == Min(reconnect_delay * 2, MaxReconnectDelay)

\* the task registered for a topic in _connection_tasks, or NoEntry
TaskOf(tasks, stream) ==
    IF \E k \in 1..Len(tasks) : tasks[k].stream = stream
    THEN tasks[CHOOSE k \in 1..Len(tasks) : tasks[k].stream = stream].task
    ELSE NoEntry

\* del self._connection_tasks[stream]
Forget(tasks, stream) == SelectSeq(tasks, LAMBDA e : e.stream # stream)

Cancel_never(m, i) == m

\* task.cancel(): a finished task is left as it is
Cancel(m, i) == IF m[i].pc = "done" THEN m ELSE [m EXCEPT ![i].cancel = TRUE]

\* `finally: if stream in self.connections: del self.connections[stream]`
Dropped(conns, stream) == [conns EXCEPT ![stream] = NoEntry]

\* a finished task: the locals of its coroutine are gone
Done(rec) ==
    [FreeTask EXCEPT !.stream = rec.stream, !.pc = "done", !.cancel = rec.cancel,
                     !.stale = rec.stale]

\* `while self.running:` at the top of _maintain_connection's loop, and the
\* call of websockets.connect that follows
LoopAgain(rec, before) ==
    IF running
    THEN [rec EXCEPT !.pc = "connecting", !.before = before,
                     !.stale = rec.stream \in wsop.unsubscribed]
    ELSE Done(rec)

\* ---- the maintenance task

TaskStart(i) ==
    /\ mt[i].pc = "new" /\ ~mt[i].cancel
    /\ mt' = [mt EXCEPT ![i] = LoopAgain(@, "start")]
    /\ UNCHANGED <<running, connections, _connection_tasks, _reconnect_delays, wsop,
                   tradingVars, validateVars, clientVars, listenVars, routeVars, maVars, laterVars>>

\* websockets.connect succeeds: the socket is registered and _listen begins
ConnectOk(i) ==
    /\ mt[i].pc = "connecting" /\ ~mt[i].cancel
    /\ connections' = [connections EXCEPT ![mt[i].stream] = i]
    /\ mt' = [mt EXCEPT ![i] =
          [@ EXCEPT !.pc = "listening", !.sock = "open", !.fails = 0, !.slept = 0]]
    /\ UNCHANGED <<running, _connection_tasks, _reconnect_delays, wsop,
                   tradingVars, validateVars, clientVars, listenVars, routeVars, maVars, laterVars>>

\* websockets.connect raises: _create_connection re-raises after its finally,
\* _maintain_connection sleeps reconnect_delay if the manager is running
ConnectFail(i) ==
    /\ mt[i].pc = "connecting" /\ ~mt[i].cancel
    /\ mt[i].fails < MaxFails
    /\ connections' = Dropped(connections, mt[i].stream)
    /\ mt' = [mt EXCEPT ![i] =
          IF running
          THEN [@ EXCEPT !.pc = "sleeping", !.slept = mt[i].reconnect_delay, !.fails = @ + 1]
          ELSE Done(@)]
    /\ UNCHANGED <<running, _connection_tasks, _reconnect_delays, wsop,
                   tradingVars, validateVars, clientVars, listenVars, routeVars, maVars, laterVars>>

\* asyncio.sleep(reconnect_delay) ends
SleepWake(i) ==
    /\ mt[i].pc = "sleeping" /\ ~mt[i].cancel
    /\ mt' = [mt EXCEPT ![i] =
          LoopAgain([@ EXCEPT !.reconnect_delay = NextDelay(@)], "wait")]
    /\ UNCHANGED <<running, connections, _connection_tasks, _reconnect_delays, wsop,
                   tradingVars, validateVars, clientVars, listenVars, routeVars, maVars, laterVars>>

\* _listen returns: the server closed the socket, the socket was closed by
\* _close_connection, an error ended the loop, or a message came while the
\* manager is not running.  _listen swallows every exception, so
\* _create_connection returns normally after its finally.
ListenEnds(i) ==
    /\ mt[i].pc = "listening" /\ ~mt[i].cancel
    /\ connections' = Dropped(connections, mt[i].stream)
    /\ mt' = [mt EXCEPT ![i] =
          LoopAgain([@ EXCEPT !.sock = "none", !.fails = 0,
                              !.reconnect_delay = InitialReconnectDelay], "drop")]
    /\ UNCHANGED <<running, _connection_tasks, _reconnect_delays, wsop,
                   tradingVars, validateVars, clientVars, listenVars, routeVars, maVars, laterVars>>

\* the task's next step after task.cancel(): CancelledError at its await
Cancelled(i) ==
    /\ mt[i].cancel /\ mt[i].pc \notin {"free", "done"}
    /\ connections' = IF mt[i].pc \in {"connecting", "listening"}
                      THEN Dropped(connections, mt[i].stream) ELSE connections
    /\ mt' = [mt EXCEPT ![i] = Done(@)]
    /\ UNCHANGED <<running, _connection_tasks, _reconnect_delays, wsop,
                   tradingVars, validateVars, clientVars, listenVars, routeVars, maVars, laterVars>>

\* ---- the calls of the manager's user, one after the other

Returned(op, name) == [op EXCEPT !.pc = "idle", !.stream = "none", !.idx = 0, !.last = name]

\* start()
Start ==
    /\ wsop.pc = "idle" /\ wsop.ops < MaxOps
    /\ running' = TRUE
    /\ wsop' = Returned([wsop EXCEPT !.ops = @ + 1], "start")
    /\ UNCHANGED <<connections, _connection_tasks, _reconnect_delays, mt,
                   tradingVars, validateVars, clientVars, listenVars, routeVars, maVars, laterVars>>

\* subscribe_*: _ensure_connection creates the task if the topic has none
Subscribe(stream) ==
    /\ wsop.pc = "idle" /\ wsop.ops < MaxOps
    /\ wsop' = Returned([wsop EXCEPT !.ops = @ + 1, !.unsubscribed = @ \ {stream}],
                        "subscribe")
    /\ IF TaskOf(_connection_tasks, stream) = NoEntry
       THEN /\ \E i \in TaskIds : mt[i].pc = "free"
            /\ LET i == CHOOSE j \in TaskIds :
                           mt[j].pc = "free" /\ \A h \in 1..(j - 1) : mt[h].pc # "free"
               IN /\ mt' = [mt EXCEPT ![i] =
                               [FreeTask EXCEPT !.stream = stream, !.pc = "new",
                                   !.reconnect_delay = InitialReconnectDelay]]
                  /\ _connection_tasks' =
                         Append(_connection_tasks, [stream |-> stream, task |-> i])
       ELSE UNCHANGED <<mt, _connection_tasks>>
    /\ UNCHANGED <<running, connections, _reconnect_delays,
                   tradingVars, validateVars, clientVars, listenVars, routeVars, maVars, laterVars>>

\* the second half of _close_connection: the task is cancelled and forgotten
CancelAndForget(m, stream) ==
    LET i == TaskOf(_connection_tasks, stream)
    IN /\ mt' = IF i = NoEntry THEN m ELSE Cancel(m, i)
       /\ _connection_tasks' = Forget(_connection_tasks, stream)

\* unsubscribe(stream), up to `await self.connections[stream].close()`
Unsubscribe(stream) ==
    /\ wsop.pc = "idle" /\ wsop.ops < MaxOps
    /\ IF connections[stream] # NoEntry
       THEN /\ mt' = [mt EXCEPT ![connections[stream]].sock = "closed"]
            /\ wsop' = [wsop EXCEPT !.pc = "closing", !.stream = stream, !.ops = @ + 1]
            /\ UNCHANGED _connection_tasks
       ELSE /\ CancelAndForget(mt, stream)
            /\ wsop' = Returned([wsop EXCEPT !.ops = @ + 1,
                                             !.unsubscribed = @ \cup {stream}], "unsubscribe")
    /\ UNCHANGED <<running, connections, _reconnect_delays,
                   tradingVars, validateVars, clientVars, listenVars, routeVars, maVars, laterVars>>

\* close() has returned: `del self.connections[stream]` raises KeyError when the
\* entry is gone, and the except clause ends _close_connection there
CloseReturns ==
    /\ wsop.pc = "closing"
    /\ wsop' = Returned([wsop EXCEPT !.unsubscribed = @ \cup {wsop.stream}], "unsubscribe")
    /\ IF connections[wsop.stream] = NoEntry
       THEN UNCHANGED <<connections, mt, _connection_tasks>>
       ELSE /\ connections' = Dropped(connections, wsop.stream)
            /\ CancelAndForget(mt, wsop.stream)
    /\ UNCHANGED <<running, _reconnect_delays,
                   tradingVars, validateVars, clientVars, listenVars, routeVars, maVars, laterVars>>

\* stop()'s loop over _connection_tasks from entry k on: cancel the task and
\* await it; the await of a finished task returns at once
RECURSIVE StopFrom(_, _)
StopFrom(m, k) ==
    IF k > Len(_connection_tasks) THEN <<m, k>>
    ELSE LET m2 == Cancel(m, _connection_tasks[k].task)
         IN IF m2[_connection_tasks[k].task].pc = "done"
            THEN StopFrom(m2, k + 1) ELSE <<m2, k>>

\* stop() from entry k of its loop to its next await or to its end
StopAdvance(op, m, k) ==
    LET r == StopFrom(m, k)
        open == {s \in Topics : connections[s] # NoEntry}
    IN IF r[2] <= Len(_connection_tasks)
       THEN /\ mt' = r[1]
            /\ wsop' = [op EXCEPT !.pc = "stop_await", !.idx = r[2]]
            /\ UNCHANGED <<connections, _connection_tasks, _reconnect_delays>>
       ELSE IF open # {}
       THEN /\ mt' = [i \in TaskIds |->
                        IF \E s \in open : connections[s] = i
                        THEN [r[1][i] EXCEPT !.sock = "closed"] ELSE r[1][i]]
            /\ wsop' = [op EXCEPT !.pc = "stop_closing"]
            /\ UNCHANGED <<connections, _connection_tasks, _reconnect_delays>>
       ELSE /\ mt' = r[1]
            /\ connections' = [s \in Topics |-> NoEntry]
            /\ _connection_tasks' = <<>>
            /\ _reconnect_delays' = {}
            /\ wsop' = Returned(op, "stop")

StopCall ==
    /\ wsop.pc = "idle" /\ wsop.ops < MaxOps
    /\ running' = FALSE
    /\ StopAdvance([wsop EXCEPT !.ops = @ + 1,
                                 !.awaited = {_connection_tasks[k].task :
                                                 k \in 1..Len(_connection_tasks)}], mt, 1)
    /\ UNCHANGED <<tradingVars, validateVars, clientVars, listenVars, routeVars, maVars, laterVars>>

\* the task stop() awaits has finished (or the gathered _close_connection calls
\* have): stop() goes on
StopResume ==
    /\ IF wsop.pc = "stop_await"
       THEN /\ mt[_connection_tasks[wsop.idx].task].pc = "done"
            /\ StopAdvance(wsop, mt, wsop.idx + 1)
       ELSE /\ wsop.pc = "stop_closing"
            /\ mt' = [i \in TaskIds |->
                        IF \E k \in 1..Len(_connection_tasks) : _connection_tasks[k].task = i
                        THEN Cancel(mt, i)[i] ELSE mt[i]]
            /\ connections' = [s \in Topics |-> NoEntry]
            /\ _connection_tasks' = <<>>
            /\ _reconnect_delays' = {}
            /\ wsop' = Returned(wsop, "stop")
    /\ UNCHANGED <<running, tradingVars, validateVars, clientVars, listenVars, routeVars, maVars, laterVars>>

StreamInit ==
    /\ running = FALSE
    /\ connections = [s \in Topics |-> NoEntry]
    /\ _connection_tasks = <<>>
    /\ _reconnect_delays = {}
    /\ mt = [i \in TaskIds |-> FreeTask]
    /\ wsop = IdleOp
    /\ callers = {}
    /\ TradingIdle /\ ValidateIdle /\ ClientIdle /\ ListenIdle /\ RouteIdle /\ MaIdle /\ LaterIdle

StreamNext ==
    \/ \E i \in TaskIds : TaskStart(i)
    \/ \E i \in TaskIds : ConnectOk(i)
    \/ \E i \in TaskIds : ConnectFail(i)
    \/ \E i \in TaskIds : SleepWake(i)
    \/ \E i \in TaskIds : ListenEnds(i)
    \/ \E i \in TaskIds : Cancelled(i)
    \/ Start
    \/ \E stream \in Topics : Subscribe(stream)
    \/ \E stream \in Topics : Unsubscribe(stream)
    \/ CloseReturns
    \/ StopCall
    \/ StopResume

SpecStream == StreamInit /\ [][StreamNext]_vars

-----------------------------------------------------------------------------
(* Claims about the connection tasks *)

TasksOf(stream) == {i \in TaskIds : mt[i].pc # "free" /\ mt[i].stream = stream}
Finished(i) == mt[i].pc \in {"free", "done"}

\* C12 (as stated): after unsubscribe(topic) has returned, and until the topic is
\* subscribed again, the topic has no entry in connections nor in
\* _connection_tasks, its maintenance task is cancelled, and no connection
\* attempt is made for it.
C12_UnsubscribeTearsDown ==
    \A stream \in wsop.unsubscribed :
        /\ connections[stream] = NoEntry
        /\ TaskOf(_connection_tasks, stream) = NoEntry
        /\ \A i \in TasksOf(stream) :
              /\ mt[i].cancel \/ mt[i].pc = "done"
              /\ ~mt[i].stale

\* C13: a task that waits before its next connection attempt, after its k-th
\* failed attempt in a row (counted from its start or from its last established
\* connection), waits min(initial_reconnect_delay * 2^(k-1), max_reconnect_delay).
C13_BackoffDoublesToCap ==
    \A i \in TaskIds :
        mt[i].pc = "sleeping" =>
            /\ mt[i].fails >= 1
            /\ mt[i].slept =
                  Min(InitialReconnectDelay * Pow2(mt[i].fails - 1), MaxReconnectDelay)
            /\ mt[i].slept = mt[i].reconnect_delay

\* the eighth failure in a row waits the capped 60 s
C13_Witness ==
    \E i \in TaskIds :
        mt[i].pc = "sleeping" /\ mt[i].fails = 8 /\ mt[i].slept = MaxReconnectDelay

\* C14 (as stated): every reconnect attempt after an established connection has
\* dropped is preceded by a wait, the first one of initial_reconnect_delay.
C14_ReconnectWaitsAfterDrop ==
    \A i \in TaskIds :
        mt[i].pc = "connecting" =>
            \/ mt[i].before = "start"
            \/ mt[i].before = "wait" /\ mt[i].slept >= InitialReconnectDelay

\* C15 (as stated): after stop() has returned, running is false, every
\* maintenance task has finished, and connections, _connection_tasks and
\* _reconnect_delays are empty.
C15_StopLeavesNothing ==
    (wsop.pc = "idle" /\ wsop.last = "stop") =>
        /\ ~running
        /\ \A i \in TaskIds : Finished(i)
        /\ \A stream \in Topics : connections[stream] = NoEntry
        /\ _connection_tasks = <<>>
        /\ _reconnect_delays = {}

\* C15 (amended): after stop() has returned, running is false, connections,
\* _connection_tasks and _reconnect_delays are empty, and every maintenance task
\* that was registered when stop() was called has finished; any other task has
\* finished or has at least been cancelled: the task of a topic unsubscribed
\* before, which stop() does not await, may have its cancellation still pending.
C15_StopLeavesNothingRegistered ==
    (wsop.pc = "idle" /\ wsop.last = "stop") =>
        /\ ~running
        /\ \A i \in wsop.awaited : mt[i].pc = "done"
        /\ \A i \in TaskIds : Finished(i) \/ mt[i].cancel
        /\ \A stream \in Topics : connections[stream] = NoEntry
        /\ _connection_tasks = <<>>
        /\ _reconnect_delays = {}

\* stop() has returned after it cancelled and awaited the tasks of two topics
C15_Witness ==
    /\ wsop.pc = "idle" /\ wsop.last = "stop"
    /\ \E i, j \in TaskIds :
          /\ mt[i].pc = "done" /\ mt[j].pc = "done" /\ mt[i].stream # mt[j].stream
          /\ mt[i].cancel /\ mt[j].cancel

-----------------------------------------------------------------------------
(* Topic names and event names: subscribe_* and _get_event_name *)

\* A string is a sequence of pieces; no piece contains a part of another, so
\* `x in s` is "x is a piece of s", and only the pieces of Markers hold an '@'.
Symbols == {"BTCUSDT", "btcusdt", "EthUsdt"}
Intervals == {"1m", "1h"}
Levels == {"None", "0", "5"}
\* listen keys, named after their number of characters
ListenKeys == {"key60", "key64"}
Markers == {"@ticker", "@kline", "@depth", "@trade"}
Methods == {"subscribe_ticker", "subscribe_kline", "subscribe_depth", "subscribe_trade",
            "subscribe_user_data"}

\* str.lower() and the upper-case symbol the exchange writes in its messages
Lower(x) ==
    CASE x \in {"BTCUSDT", "btcusdt"} -> "btcusdt"
      [] x \in {"EthUsdt", "ETHUSDT", "ethusdt"} -> "ethusdt"
      [] OTHER -> x
ExchangeSymbol(x) == IF Lower(x) = "btcusdt" THEN "BTCUSDT" ELSE "ETHUSDT"

\* len() of a piece
PieceLen(x) ==
    CASE x = "key60" -> 60 [] x = "key64" -> 64 [] x \in Markers -> 6 [] OTHER -> 7
RECURSIVE StrLen(_)
StrLen(str) == IF str = <<>> THEN 0 ELSE PieceLen(Head(str)) + StrLen(Tail(str))

Contains(str, x) == \E k \in 1..Len(str) : str[k] = x

\* stream.split('@')[0]
RECURSIVE BeforeAt(_)
BeforeAt(str) ==
    IF str = <<>> \/ Head(str) \in Markers THEN <<>>
    ELSE <<Head(str)>> \o BeforeAt(Tail(str))

\* the stream a subscribe method opens (lines 65, 76, 87-90, 102, 113)
StreamOf(c) ==
    CASE c.method = "subscribe_ticker" -> <<Lower(c.symbol), "@ticker">>
      [] c.method = "subscribe_kline" -> <<Lower(c.symbol), "@kline", "_", c.interval>>
      [] c.method = "subscribe_depth" ->
            IF c.level \in {"None", "0"} THEN <<Lower(c.symbol), "@depth">>
            ELSE <<Lower(c.symbol), "@depth", c.level>>
      [] c.method = "subscribe_trade" -> <<Lower(c.symbol), "@trade">>
      [] OTHER -> <<c.listen_key>>

\* the event name a subscribe method returns (lines 66, 77, 92, 103, 114)
EventOf(c) ==
    CASE c.method = "subscribe_ticker" -> <<"ticker", "_", Lower(c.symbol)>>
      [] c.method = "subscribe_kline" -> <<"kline", "_", Lower(c.symbol), "_", c.interval>>
      [] c.method = "subscribe_depth" -> <<"depth", "_", Lower(c.symbol)>>
      [] c.method = "subscribe_trade" -> <<"trade", "_", Lower(c.symbol)>>
      [] OTHER -> <<"user_data">>

\* a well-formed message of the stream: its 's' and its k.i
MessageOf(c) == [s |-> ExchangeSymbol(c.symbol), i |-> c.interval]

\* _get_event_name(stream, data)
GetEventName(stream, data) ==
    IF Contains(stream, "@ticker") THEN <<"ticker", "_", Lower(data.s)>>
    ELSE IF Contains(stream, "@kline") THEN <<"kline", "_", Lower(data.s), "_", data.i>>
    ELSE IF Contains(stream, "@depth") THEN <<"depth", "_">> \o BeforeAt(stream)
    ELSE IF Contains(stream, "@trade") THEN <<"trade", "_", Lower(data.s)>>
    ELSE IF StrLen(stream) = 60 THEN <<"user_data">>
    ELSE <<"unknown", "_">> \o stream

RouteCalls ==
    [method : Methods, symbol : Symbols, interval : Intervals, level : Levels,
     listen_key : ListenKeys]

RouteInit ==
    /\ rcall \in RouteCalls
    /\ rresult = NoResult
    /\ callers = {}
    /\ TradingIdle /\ ValidateIdle /\ ClientIdle /\ StreamIdle /\ ListenIdle /\ MaIdle /\ LaterIdle

\* the subscribe call returns its event name, and a message of the stream it
\* opened goes through _process_message
Route ==
    /\ rresult = NoResult
    /\ rresult' = [returned |-> EventOf(rcall),
                   emitted |-> GetEventName(StreamOf(rcall), MessageOf(rcall))]
    /\ UNCHANGED <<rcall, tradingVars, validateVars, clientVars, streamVars, listenVars,
                   maVars, laterVars>>

RouteNext == Route

SpecRoute == RouteInit /\ [][RouteNext]_vars

\* C16 (as stated): a well-formed message of the stream a subscribe method opened
\* is emitted on the event name the method returned, for every symbol, depth
\* level and listen key.
C16_MessageReachesSubscriber ==
    rresult # NoResult => rresult.emitted = rresult.returned

-----------------------------------------------------------------------------
(* AsyncEventEmitter and the listen loop of one stream *)

MaxMsgs == 2
MaxListeners == 2

\* the callbacks of one event: a coroutine function and a plain function
Callbacks == {"async_cb", "sync_cb"}
iscoroutinefunction(cb) == cb = "async_cb"

\* pc: where _listen is; msg: the number of the last message it took; registered:
\* _listeners when that message's emit was called; outcome: how the last emit ended;
\* completed: the messages whose listeners have all completed
IdleListen ==
    [pc |-> "waiting", msg |-> 0, registered |-> <<>>, outcome |-> "none", completed |-> {}]

Finals == {"done", "raised", "cancelled"}

\* the places of delivered: one awaitable for each message and listener
Slots == 1..(MaxMsgs * MaxListeners)

\* list.remove(callback): the first occurrence goes
RECURSIVE RemoveFirst(_, _)
RemoveFirst(ls, cb) ==
    IF ls = <<>> THEN <<>>
    ELSE IF Head(ls) = cb THEN Tail(ls)
    ELSE <<Head(ls)>> \o RemoveFirst(Tail(ls), cb)

\* emit's loop over its copy of the listeners: one awaitable per listener, the
\* coroutine of a coroutine function or the task of a thread for a plain function
Awaitables(msg, listeners) ==
    [k \in 1..Len(listeners) |->
        [msg |-> msg, cb |-> listeners[k],
         via |-> IF iscoroutinefunction(listeners[k]) THEN "coroutine" ELSE "thread",
         st |-> "pending"]]

Mine(msg) == {k \in 1..Len(delivered) : delivered[k].msg = msg}

\* the awaitables of the earlier emits that are not over
Unfinished(d) ==
    LET alive(r) == r.st \notin Finals IN SelectSeq(d, alive)

\* a listener raises: gather keeps its exception as a result, the others go on
Raise_cancels(d, k) ==
    [j \in 1..Len(d) |->
        IF j = k THEN [d[j] EXCEPT !.st = "raised"]
        ELSE IF d[j].msg = d[k].msg /\ d[j].st = "pending" THEN [d[j] EXCEPT !.st = "cancelled"]
        ELSE d[j]]
Raise(d, k) == [d EXCEPT ![k].st = "raised"]

\* gather(*tasks, return_exceptions=True) is over when every awaitable is
GatherDone_first(msg) ==
    \/ \A k \in Mine(msg) : delivered[k].st \in Finals
    \/ \E k \in Mine(msg) : delivered[k].st = "raised"
GatherDone(msg) == \A k \in Mine(msg) : delivered[k].st \in Finals

\* AsyncEventEmitter.on
On(cb) ==
    /\ Len(_listeners) < MaxListeners
    /\ _listeners' = Append(_listeners, cb)
    /\ UNCHANGED <<inbox, listen, delivered, tradingVars, validateVars, clientVars,
                   streamVars, routeVars, maVars, laterVars>>

\* AsyncEventEmitter.remove_listener
RemoveListener(cb) ==
    /\ \E k \in 1..Len(_listeners) : _listeners[k] = cb
    /\ _listeners' = RemoveFirst(_listeners, cb)
    /\ UNCHANGED <<inbox, listen, delivered, tradingVars, validateVars, clientVars,
                   streamVars, routeVars, maVars, laterVars>>

\* the exchange sends the next message of the stream
Arrive ==
    /\ listen.pc # "closed"
    /\ listen.msg + Len(inbox) < MaxMsgs
    /\ inbox' = Append(inbox, listen.msg + Len(inbox) + 1)
    /\ UNCHANGED <<_listeners, listen, delivered, tradingVars, validateVars, clientVars,
                   streamVars, routeVars, maVars, laterVars>>

\* _listen takes the next message; _process_message calls emit, which copies the
\* listeners and awaits gather, or returns at once when there is no listener
TakeMessage ==
    /\ listen.pc = "waiting"
    /\ running
    /\ inbox # <<>>
    /\ inbox' = Tail(inbox)
    /\ delivered' = Unfinished(delivered) \o Awaitables(Head(inbox), _listeners)
    /\ listen' = [listen EXCEPT
            !.pc = IF _listeners = <<>> THEN "waiting" ELSE "emitting",
            !.msg = Head(inbox),
            !.registered = _listeners,
            !.outcome = IF _listeners = <<>> THEN "returned" ELSE "none",
            !.completed = IF _listeners = <<>> THEN @ \cup {Head(inbox)} ELSE @]
    /\ UNCHANGED <<_listeners, tradingVars, validateVars, clientVars, streamVars,
                   routeVars, maVars, laterVars>>

\* the event loop, or the thread pool, starts a listener
ListenerStart(k) ==
    /\ k <= Len(delivered)
    /\ delivered[k].st = "pending"
    /\ delivered' = [delivered EXCEPT ![k].st = "running"]
    /\ UNCHANGED <<_listeners, inbox, listen, tradingVars, validateVars, clientVars,
                   streamVars, routeVars, maVars, laterVars>>

ListenerEnd(k) ==
    /\ k <= Len(delivered)
    /\ delivered[k].st = "running"
    /\ delivered' = [delivered EXCEPT ![k].st = "done"]
    /\ UNCHANGED <<_listeners, inbox, listen, tradingVars, validateVars, clientVars,
                   streamVars, routeVars, maVars, laterVars>>

ListenerRaise(k) ==
    /\ k <= Len(delivered)
    /\ delivered[k].st = "running"
    /\ delivered' = Raise(delivered, k)
    /\ UNCHANGED <<_listeners, inbox, listen, tradingVars, validateVars, clientVars,
                   streamVars, routeVars, maVars, laterVars>>

\* gather is over: emit returns when gather returned its results; an exception
\* out of gather would leave emit and end in _process_message's except
GatherReturns ==
    /\ listen.pc = "emitting"
    /\ GatherDone(listen.msg)
    /\ listen' = [listen EXCEPT
            !.pc = "waiting",
            !.outcome = IF \A k \in Mine(listen.msg) : delivered[k].st \in Finals
                        THEN "returned" ELSE "raised",
            !.completed = IF \A k \in Mine(listen.msg) : delivered[k].st \in Finals
                          THEN @ \cup {listen.msg} ELSE @]
    /\ UNCHANGED <<_listeners, inbox, delivered, tradingVars, validateVars, clientVars,
                   streamVars, routeVars, maVars, laterVars>>

\* the exchange closes the connection: the async for of _listen ends
ServerCloses ==
    /\ listen.pc = "waiting"
    /\ inbox = <<>>
    /\ listen' = [listen EXCEPT !.pc = "closed"]
    /\ UNCHANGED <<_listeners, inbox, delivered, tradingVars, validateVars, clientVars,
                   streamVars, routeVars, maVars, laterVars>>

\* the manager is started and the stream's maintenance task is in _listen
ListenInit ==
    /\ _listeners = <<>>
    /\ inbox = <<>>
    /\ listen = IdleListen
    /\ delivered = <<>>
    /\ running = TRUE
    /\ connections = {}
    /\ _connection_tasks = {}
    /\ _reconnect_delays = {}
    /\ mt = "none"
    /\ wsop = "none"
    /\ callers = {}
    /\ TradingIdle /\ ValidateIdle /\ ClientIdle /\ RouteIdle /\ MaIdle /\ LaterIdle

ListenNext ==
    \/ \E cb \in Callbacks : On(cb)
    \/ \E cb \in Callbacks : RemoveListener(cb)
    \/ Arrive
    \/ TakeMessage
    \/ \E k \in Slots : ListenerStart(k)
    \/ \E k \in Slots : ListenerEnd(k)
    \/ \E k \in Slots : ListenerRaise(k)
    \/ GatherReturns
    \/ ServerCloses

SpecListen == ListenInit /\ [][ListenNext]_vars

\* C17: when emit has returned, every listener that was registered for the event
\* when emit was called has been invoked exactly once, whether or not another
\* listener raised; emit did not raise, and _listen waits for the next message
\* with the connection open.
EveryListenerInvoked ==
    (listen.msg > 0 /\ listen.pc # "emitting") =>
        /\ Cardinality(Mine(listen.msg)) = Len(listen.registered)
        /\ \A n \in 1..Len(listen.registered) :
              \E k \in Mine(listen.msg) :
                  /\ Cardinality({j \in Mine(listen.msg) : j < k}) = n - 1
                  /\ delivered[k].cb = listen.registered[n]
                  /\ delivered[k].st \in {"done", "raised"}
        /\ listen.outcome = "returned"
C17_EmitReachesEveryListener ==
    /\ []EveryListenerInvoked
    /\ [][(listen.pc = "emitting" /\ listen'.pc # "emitting")
            => (listen'.pc = "waiting" /\ listen'.outcome = "returned")]_vars

\* an emit to two listeners has returned, one of them raised and the other ended
C17_Witness ==
    /\ listen.pc = "waiting"
    /\ listen.outcome = "returned"
    /\ Len(listen.registered) = 2
    /\ \E j, k \in Mine(listen.msg) :
          delivered[j].st = "raised" /\ delivered[k].st = "done"

\* C18: no listener is invoked for a message before every listener invoked for
\* the messages that arrived before it on the stream has completed.
C18_ArrivalOrder ==
    /\ \A j, k \in 1..Len(delivered) :
          (delivered[j].msg < delivered[k].msg /\ delivered[k].st # "pending")
              => delivered[j].st \in {"done", "raised"}
    /\ \A k \in 1..Len(delivered) :
          delivered[k].st # "pending"
              => \A m \in 1..(delivered[k].msg - 1) : m \in listen.completed

\* a listener runs for the second message after the listeners of the first completed
C18_Witness ==
    /\ \E k \in Mine(2) : delivered[k].st = "running"
    /\ 1 \in listen.completed

-----------------------------------------------------------------------------
(* SimpleMAStrategy: the moving averages and the crossover signal *)

CacheTtl == 10
MinCrossoverInterval == 300
MaxPx == 2
MaxTicks == 2
MaxClock == 15

ClosePrices == 1..MaxPx

\* short_ma_period and long_ma_period of the config
Periods == {[short_period |-> 1, long_period |-> 2], [short_period |-> 2, long_period |-> 3]}

max_history == 2 * periods.long_period

\* a moving average is kept as its multiple by short_period * long_period, which
\* is an integer and compares as the average does
Scale == periods.short_period * periods.long_period

RECURSIVE Sum(_)
Sum(seq) == IF seq = <<>> THEN 0 ELSE Head(seq) + Sum(Tail(seq))

LastN_first(seq, n) == IF Len(seq) <= n THEN seq ELSE SubSeq(seq, 1, n)

\* seq[-n:]
LastN(seq, n) == IF Len(seq) <= n THEN seq ELSE SubSeq(seq, Len(seq) - n + 1, Len(seq))

\* sum(price_history[-period:]) / period
Mean(h, period) == (Sum(LastN(h, period)) * Scale) \div period

NoTime == -1
NewMa == [last_short_ma |-> 0, last_long_ma |-> 0, current_short_ma |-> 0, current_long_ma |-> 0]

\* started: on_start is over; ticks: the price updates so far; result: what the
\* last generate_signal returned, seen: the averages it looked at, first: it was
\* the first evaluation after on_start; last_crossover_time: the strategy's field
NoSignal ==
    [started |-> FALSE, ticks |-> 0, result |-> "idle", seen |-> NewMa, first |-> FALSE,
     evaluated |-> FALSE, last_crossover_time |-> NoTime]

\* AsyncCache.get: the value of a key that is there and younger than ttl
Fresh(cache, key, t) == {e \in cache : e.key = key /\ t - e.timestamp < CacheTtl}

\* AsyncCache.set
CacheSet(cache, key, value, t) ==
    {e \in cache : e.key # key} \cup {[key |-> key, value |-> value, timestamp |-> t]}

\* _update_moving_averages: the averages after the call
UpdatedMa(h, m, cache, t) ==
    LET hit == Fresh(cache, Len(h), t)
        moved == [m EXCEPT !.last_short_ma = m.current_short_ma,
                           !.last_long_ma = m.current_long_ma]
    IN  IF hit # {}
        THEN LET e == CHOOSE e \in hit : TRUE
             IN  [moved EXCEPT !.current_short_ma = e.value[1],
                               !.current_long_ma = e.value[2]]
        ELSE [moved EXCEPT
                !.current_short_ma =
                    IF Len(h) >= periods.short_period THEN Mean(h, periods.short_period) ELSE @,
                !.current_long_ma =
                    IF Len(h) >= periods.long_period THEN Mean(h, periods.long_period) ELSE @]

\* _update_moving_averages: the cache after the call
UpdatedCache(h, m, cache, t) ==
    IF Fresh(cache, Len(h), t) # {} THEN cache
    ELSE LET after == UpdatedMa(h, m, cache, t)
         IN  CacheSet(cache, Len(h), <<after.current_short_ma, after.current_long_ma>>, t)

\* what _load_initial_history leaves in price_history: the close prices of
\* max_history klines, or long_period times the current price when the klines fail
Histories ==
    IF signal.started THEN {}
    ELSE [1..max_history -> ClosePrices]
            \cup {[k \in 1..periods.long_period |-> price] : price \in ClosePrices}

\* on_start: _load_initial_history, then _update_moving_averages
OnStart(klines) ==
    /\ ~signal.started
    /\ price_history' = klines
    /\ ma' = UpdatedMa(klines, ma, _ma_cache, clock)
    /\ _ma_cache' = UpdatedCache(klines, ma, _ma_cache, clock)
    /\ signal' = [signal EXCEPT !.started = TRUE]
    /\ UNCHANGED <<periods, clock, tradingVars, validateVars, clientVars, streamVars,
                   listenVars, routeVars, laterVars>>

\* on_price_update
OnPriceUpdate(price) ==
    /\ signal.started
    /\ signal.ticks < MaxTicks
    /\ LET h == LastN(Append(price_history, price), max_history)
       IN  /\ price_history' = h
           /\ IF Len(h) >= periods.long_period
              THEN /\ ma' = UpdatedMa(h, ma, _ma_cache, clock)
                   /\ _ma_cache' = UpdatedCache(h, ma, _ma_cache, clock)
              ELSE UNCHANGED <<ma, _ma_cache>>
    /\ signal' = [signal EXCEPT !.ticks = @ + 1]
    /\ UNCHANGED <<periods, clock, tradingVars, validateVars, clientVars, streamVars,
                   listenVars, routeVars, laterVars>>

\* _check_crossover_rate_limit
RateLimited(t) ==
    /\ signal.last_crossover_time # NoTime
    /\ t - signal.last_crossover_time < MinCrossoverInterval

\* the golden cross and the death cross of generate_signal
GoldenCross_static(m) == m.current_short_ma > m.current_long_ma
GoldenCross(m) ==
    /\ m.last_short_ma <= m.last_long_ma
    /\ m.current_short_ma > m.current_long_ma
    /\ m.last_short_ma > 0

DeathCross(m) ==
    /\ m.last_short_ma >= m.last_long_ma
    /\ m.current_short_ma < m.current_long_ma
    /\ m.last_short_ma > 0

\* generate_signal; confirmed: what _confirm_signal makes of a signal
GenerateSignal(confirmed) ==
    /\ signal.started
    /\ LET found == IF Len(price_history) < periods.long_period \/ RateLimited(clock) THEN "None"
                    ELSE IF GoldenCross(ma) THEN "BUY"
                    ELSE IF DeathCross(ma) THEN "SELL"
                    ELSE "None"
       IN  signal' = [signal EXCEPT
                !.result = IF found # "None" /\ ~confirmed THEN "None" ELSE found,
                !.seen = ma,
                !.first = ~signal.evaluated /\ signal.ticks = 0,
                !.evaluated = TRUE,
                !.last_crossover_time = IF found # "None" THEN clock ELSE @]
    /\ UNCHANGED <<periods, price_history, ma, _ma_cache, clock, tradingVars, validateVars,
                   clientVars, streamVars, listenVars, routeVars, laterVars>>

\* time passes: half the ttl of the cache, or all of it
Steps == {CacheTtl \div 2, CacheTtl}

Advance(d) ==
    /\ clock + d <= MaxClock
    /\ clock' = clock + d
    /\ UNCHANGED <<periods, price_history, ma, _ma_cache, signal, tradingVars, validateVars,
                   clientVars, streamVars, listenVars, routeVars, laterVars>>

\* the strategy after __init__
MaInit ==
    /\ periods \in Periods
    /\ price_history = <<>>
    /\ ma = NewMa
    /\ _ma_cache = {}
    /\ clock = 0
    /\ signal = NoSignal
    /\ callers = {}
    /\ TradingIdle /\ ValidateIdle /\ ClientIdle /\ StreamIdle /\ ListenIdle /\ RouteIdle /\ LaterIdle

MaNext ==
    \/ \E klines \in Histories : OnStart(klines)
    \/ \E price \in ClosePrices : OnPriceUpdate(price)
    \/ \E confirmed \in BOOLEAN : GenerateSignal(confirmed)
    \/ \E d \in Steps : Advance(d)

SpecMA == MaInit /\ [][MaNext]_vars

\* C19 (as stated): after every _update_moving_averages call made with at least
\* long_period prices in the window, current_short_ma is the mean of the last
\* short_period prices of the window and current_long_ma the mean of the last
\* long_period prices, also when the window is at its maximum length.
C19_AveragesFollowWindow ==
    (signal.started /\ Len(price_history) >= periods.long_period) =>
        /\ ma.current_short_ma = Mean(price_history, periods.short_period)
        /\ ma.current_long_ma = Mean(price_history, periods.long_period)

\* C20: generate_signal returns BUY only when the previous pair of averages has
\* short <= long and the current pair short > long, SELL only when the previous
\* pair has short >= long and the current pair short < long, no signal when both
\* pairs have the same strict ordering, and no signal at the first evaluation
\* after start, whatever the ordering of the loaded history.
C20_SignalOnlyOnCrossover ==
    LET m == signal.seen IN
    /\ signal.result = "BUY" =>
          m.last_short_ma <= m.last_long_ma /\ m.current_short_ma > m.current_long_ma
    /\ signal.result = "SELL" =>
          m.last_short_ma >= m.last_long_ma /\ m.current_short_ma < m.current_long_ma
    /\ ( \/ (m.last_short_ma < m.last_long_ma /\ m.current_short_ma < m.current_long_ma)
         \/ (m.last_short_ma > m.last_long_ma /\ m.current_short_ma > m.current_long_ma) )
          => signal.result \notin {"BUY", "SELL"}
    /\ signal.first => signal.result \notin {"BUY", "SELL"}

\* a BUY was returned on a crossing of the averages
C20_Witness ==
    /\ signal.result = "BUY"
    /\ signal.seen.last_short_ma < signal.seen.last_long_ma
    /\ signal.seen.current_short_ma > signal.seen.current_long_ma

-----------------------------------------------------------------------------
(* BaseStrategy.run: from a crossover to execute_strategy_order *)

MaxRunClock == 4

\* min_crossover_interval of the config, in ticks of the strategy's clock
CrossoverIntervals == {1, 2}

\* now: datetime.now(); cross: the crossing the stored averages show, and shown: its
\* number (3: a later one); eval: the last generate_signal (whether it was called
\* less than min_crossover_interval after last_crossover_time, what it returned);
\* first_at, close, seen: when the first crossing came, whether the second came
\* less than min_crossover_interval later, on which of the two generate_signal ran;
\* handed: the calls of execute_strategy_order, last_hand: when the last one was
NewRun(interval) ==
    [min_crossover_interval |-> interval, now |-> 0, cross |-> "none", shown |-> 0,
     last_crossover_time |-> NoTime, last_signal |-> "None", position_size |-> 0,
     eval |-> [early |-> FALSE, result |-> "idle"],
     crossed |-> 0, first_at |-> 0, close |-> FALSE, seen |-> {},
     handed |-> <<>>, last_hand |-> NoTime]

\* _check_crossover_rate_limit
RunRateLimited_never(r) == FALSE
RunRateLimited(r) ==
    /\ r.last_crossover_time # NoTime
    /\ r.now - r.last_crossover_time < r.min_crossover_interval

\* generate_signal before _confirm_signal: the crossing, unless rate-limited
Detected(r) ==
    IF RunRateLimited(r) THEN "None"
    ELSE IF r.cross = "golden" THEN "BUY"
    ELSE IF r.cross = "death" THEN "SELL"
    ELSE "None"

\* execute_signal hands a BUY on when position_size <= 0, a SELL when it is >= 0
Hands(r, sig) ==
    \/ sig = "BUY" /\ r.position_size <= 0
    \/ sig = "SELL" /\ r.position_size >= 0

\* on_price_update: the stored averages show a golden cross, a death cross or none
RunTick(c) ==
    /\ run' = [run EXCEPT
            !.cross = c,
            !.shown = IF c = "none" THEN 0 ELSE IF run.crossed < 2 THEN run.crossed + 1 ELSE 3,
            !.crossed = IF c = "none" \/ @ = 2 THEN @ ELSE @ + 1,
            !.first_at = IF c # "none" /\ run.crossed = 0 THEN run.now
                         ELSE IF c # "none" /\ run.crossed = 1 THEN 0 ELSE @,
            !.close = IF c # "none" /\ run.crossed = 1
                      THEN run.now - run.first_at < run.min_crossover_interval ELSE @]
    /\ UNCHANGED <<fcall, fresult, dca, cacheop, sess, mon, tradingVars, validateVars,
                   clientVars, otherVars, moreVars>>

RunAdvance ==
    /\ run.now < MaxRunClock
    /\ run' = [run EXCEPT !.now = @ + 1]
    /\ UNCHANGED <<fcall, fresult, dca, cacheop, sess, mon, tradingVars, validateVars,
                   clientVars, otherVars, moreVars>>

\* one turn of run: generate_signal, then execute_signal when the signal is new.
\* outcome: _confirm_signal rejects the signal, or get_current_price raises, or
\* execute_strategy_order raises, or fills the order, or leaves it unfilled
LoopTurn(outcome) ==
    LET found == Detected(run)
        sig == IF outcome # "rejected" THEN found ELSE "None"
        fresh == sig # "None" /\ sig # run.last_signal
        priced == outcome # "price_raises"
        hands == fresh /\ priced /\ Hands(run, sig)
    IN  /\ run' = [run EXCEPT
            !.last_crossover_time = IF found # "None" THEN run.now ELSE @,
            !.eval = [early |-> run.last_crossover_time # NoTime
                                  /\ run.now - run.last_crossover_time < run.min_crossover_interval,
                      result |-> sig],
            !.seen = IF run.shown \in 1..2 THEN @ \cup {run.shown} ELSE @,
            !.handed = IF hands
                       THEN Append(@, [side |-> sig, outcome |-> outcome,
                                       spaced |-> run.last_hand = NoTime
                                           \/ run.now - run.last_hand >= run.min_crossover_interval])
                       ELSE @,
            !.last_hand = IF hands THEN run.now ELSE @,
            !.position_size =
                IF hands /\ outcome = "filled" THEN (IF sig = "BUY" THEN 1 ELSE -1)
                ELSE IF hands /\ outcome = "unfilled" THEN 0
                ELSE @,
            !.last_signal = IF fresh /\ priced THEN sig ELSE @]
        /\ UNCHANGED <<fcall, fresult, dca, cacheop, sess, mon, tradingVars, validateVars,
                       clientVars, otherVars, moreVars>>

Outcomes == {"rejected", "price_raises", "raises", "filled", "unfilled"}

RunInit ==
    /\ run \in {NewRun(i) : i \in CrossoverIntervals}
    /\ fcall = "none" /\ fresult = "none" /\ dca = "none" /\ cacheop = "none"
    /\ sess = "none" /\ mon = "none"
    /\ callers = {}
    /\ MoreIdle
    /\ TradingIdle /\ ValidateIdle /\ ClientIdle /\ OtherIdle

RunNext ==
    \/ \E c \in {"golden", "death", "none"} : RunTick(c)
    \/ RunAdvance
    \/ \E outcome \in Outcomes : LoopTurn(outcome)

SpecRun == RunInit /\ [][RunNext]_vars

Executed == {k \in 1..Len(run.handed) : run.handed[k].outcome \in {"filled", "unfilled"}}

\* two crossings less than min_crossover_interval apart, generate_signal ran on each
TwoCloseCrossings == run.crossed = 2 /\ run.close /\ run.seen = {1, 2}

C22_DirectionsAlternate ==
    \A k \in 1..(Len(run.handed) - 1) : run.handed[k].side # run.handed[k + 1].side

-----------------------------------------------------------------------------
(* SimpleMAStrategy._confirm_signal and its three filters *)

MaxWindow == 4

FilterPrices == 1..3
TrendPeriods == {2, 3}

\* the config flags, the reply of get_ticker (it raises, or the ticker's volume),
\* trend_confirmation_period and price_history
ConfirmCalls ==
    [signal : {"BUY", "SELL"},
     require_volume_confirmation : BOOLEAN,
     require_trend_confirmation : BOOLEAN,
     require_price_action_confirmation : BOOLEAN,
     ticker : {"raises", "0", "1"},
     trend_period : TrendPeriods,
     price_history : UNION {[1..n -> FilterPrices] : n \in 0..MaxWindow}]

NotReturned == [returned |-> "idle"]

\* _check_volume_confirmation
VolumeConfirmation_closed(c) == c.ticker = "1"
VolumeConfirmation(c) == IF c.ticker = "raises" THEN TRUE ELSE c.ticker # "0"

\* _check_trend_confirmation: the last price against the mean of the last trend_period
TrendConfirmation(c) ==
    LET h == c.price_history
        total == Sum(LastN(h, c.trend_period))
        current == h[Len(h)] * c.trend_period
    IN  IF Len(h) < c.trend_period THEN TRUE
        ELSE IF c.signal = "BUY" THEN current > total
        ELSE current < total

\* _check_price_action_confirmation: the last three prices rise, or fall
PriceActionConfirmation(c) ==
    LET h == c.price_history
        n == Len(h)
    IN  IF n < 3 THEN TRUE
        ELSE IF c.signal = "BUY" THEN h[n] > h[n - 1] /\ h[n - 1] > h[n - 2]
        ELSE h[n] < h[n - 1] /\ h[n - 1] < h[n - 2]

\* _confirm_signal
ConfirmSignal(c) ==
    IF c.require_volume_confirmation /\ ~VolumeConfirmation(c) THEN "None"
    ELSE IF c.require_trend_confirmation /\ ~TrendConfirmation(c) THEN "None"
    ELSE IF c.require_price_action_confirmation /\ ~PriceActionConfirmation(c) THEN "None"
    ELSE c.signal

ConfirmInit ==
    /\ fcall \in ConfirmCalls
    /\ fresult = NotReturned
    /\ run = "none" /\ dca = "none" /\ cacheop = "none" /\ sess = "none" /\ mon = "none"
    /\ callers = {}
    /\ MoreIdle
    /\ TradingIdle /\ ValidateIdle /\ ClientIdle /\ OtherIdle

Confirm ==
    /\ fresult = NotReturned
    /\ fresult' = [returned |-> ConfirmSignal(fcall)]
    /\ UNCHANGED <<fcall, run, dca, cacheop, sess, mon, tradingVars, validateVars,
                   clientVars, otherVars, moreVars>>

SpecConfirm == ConfirmInit /\ [][Confirm]_vars

\* an enabled filter could be evaluated and was against the signal
VolumeRejects ==
    fcall.require_volume_confirmation /\ fcall.ticker = "0"
TrendRejects ==
    LET h == fcall.price_history
        n == fcall.trend_period
        total == Sum(SubSeq(h, Len(h) - n + 1, Len(h)))
    IN  /\ fcall.require_trend_confirmation
        /\ Len(h) >= n
        /\ IF fcall.signal = "BUY" THEN h[Len(h)] * n <= total ELSE h[Len(h)] * n >= total
PriceActionRejects ==
    LET h == fcall.price_history
        n == Len(h)
    IN  /\ fcall.require_price_action_confirmation
        /\ n >= 3
        /\ IF fcall.signal = "BUY" THEN h[n] <= h[n - 1] \/ h[n - 1] <= h[n - 2]
           ELSE h[n] >= h[n - 1] \/ h[n - 1] >= h[n - 2]

\* C23: a filter is applied only if its flag is set, and a filter that cannot be
\* evaluated allows the signal: _confirm_signal returns the raw signal unless an
\* enabled filter was evaluated and rejected it, and None then.
C23_FiltersFailOpen ==
    fresult # NotReturned =>
        /\ fresult.returned \in {fcall.signal, "None"}
        /\ fresult.returned = fcall.signal
              <=> ~(VolumeRejects \/ TrendRejects \/ PriceActionRejects)

\* every filter is enabled and none can be evaluated: the signal is returned
C23_Witness ==
    /\ fresult # NotReturned
    /\ fcall.require_volume_confirmation /\ fcall.ticker = "raises"
    /\ fcall.require_trend_confirmation /\ fcall.require_price_action_confirmation
    /\ Len(fcall.price_history) < 3 /\ Len(fcall.price_history) < fcall.trend_period
    /\ fresult.returned = fcall.signal

-----------------------------------------------------------------------------
(* TradingService.execute_dca_order *)

MaxOrders == 4
MaxAmount == 3

\* pc: where the call is; i: the loop index; orders: the list it builds; log: its
\* sleeps and its place_market_order calls (side, amount as total over number,
\* whether the call returned an order), in order; result: the list it returned
IdleDca ==
    [pc |-> "idle", side |-> "BUY", total_amount |-> 0, num_orders |-> 0, i |-> 0,
     orders |-> <<>>, log |-> <<>>, result |-> <<>>]

\* the body of the loop up to its first await: the sleep when i > 0, else the order
Iterate_nosleep(d) == [d EXCEPT !.pc = "placing"]
Iterate(d) == [d EXCEPT !.pc = IF d.i > 0 THEN "sleeping" ELSE "placing"]

\* execute_dca_order is called
DcaCall(side, total_amount, num_orders) ==
    /\ dca.pc = "idle"
    /\ dca' = Iterate([dca EXCEPT !.side = side, !.total_amount = total_amount,
                                  !.num_orders = num_orders])
    /\ UNCHANGED <<fcall, fresult, run, cacheop, sess, mon, tradingVars, validateVars,
                   clientVars, otherVars, moreVars>>

\* asyncio.sleep(time_interval) is over
DcaSleepWake ==
    /\ dca.pc = "sleeping"
    /\ dca' = [dca EXCEPT !.pc = "placing", !.log = Append(@, [what |-> "sleep"])]
    /\ UNCHANGED <<fcall, fresult, run, cacheop, sess, mon, tradingVars, validateVars,
                   clientVars, otherVars, moreVars>>

\* place_market_order returns an order, or raises: the loop goes on, or breaks
DcaPlaceReply(ok) ==
    /\ dca.pc = "placing"
    /\ LET entry == [what |-> "order", side |-> dca.side, ok |-> ok,
                     amount |-> <<dca.total_amount, dca.num_orders>>]
           logged == [dca EXCEPT !.log = Append(@, entry)]
           placed == [logged EXCEPT !.orders = Append(@, dca.i + 1), !.i = @ + 1]
       IN  dca' = IF ~ok THEN [logged EXCEPT !.pc = "returned", !.result = dca.orders]
                  ELSE IF placed.i < dca.num_orders THEN Iterate(placed)
                  ELSE [placed EXCEPT !.pc = "returned", !.result = placed.orders]
    /\ UNCHANGED <<fcall, fresult, run, cacheop, sess, mon, tradingVars, validateVars,
                   clientVars, otherVars, moreVars>>

DcaInit ==
    /\ dca = IdleDca
    /\ fcall = "none" /\ fresult = "none" /\ run = "none" /\ cacheop = "none"
    /\ sess = "none" /\ mon = "none"
    /\ callers = {}
    /\ MoreIdle
    /\ TradingIdle /\ ValidateIdle /\ ClientIdle /\ OtherIdle

DcaNext ==
    \/ \E side \in {"BUY", "SELL"} : \E total_amount \in 1..MaxAmount :
          \E num_orders \in 1..MaxOrders : DcaCall(side, total_amount, num_orders)
    \/ DcaSleepWake
    \/ \E ok \in BOOLEAN : DcaPlaceReply(ok)

SpecDca == DcaInit /\ [][DcaNext]_vars

OrderCalls == {k \in 1..Len(dca.log) : dca.log[k].what = "order"}

\* C24: execute_dca_order attempts market orders of total_amount / num_orders each,
\* one after the other, with a sleep before every order but the first; after the
\* first failing order it attempts no other and returns the orders placed before
\* it, so it returns num_orders orders exactly when every order succeeded.
C24_DcaStopsAtFirstFailure ==
    /\ \A k \in OrderCalls :
          /\ dca.log[k].amount = <<dca.total_amount, dca.num_orders>>
          /\ dca.log[k].side = dca.side
          /\ k > 1 => dca.log[k - 1].what = "sleep"
          /\ ~dca.log[k].ok => k = Len(dca.log) /\ dca.pc = "returned"
    /\ \A k \in 1..Len(dca.log) : dca.log[k].what = "sleep" => k > 1 /\ dca.log[k - 1].what = "order"
    /\ Cardinality(OrderCalls) <= dca.num_orders
    /\ dca.pc = "returned" =>
          /\ Len(dca.result) = Cardinality({k \in OrderCalls : dca.log[k].ok})
          /\ Len(dca.result) = dca.num_orders
                <=> (Cardinality(OrderCalls) = dca.num_orders /\ \A k \in OrderCalls : dca.log[k].ok)

\* the third of four orders failed: two orders are returned, the fourth was not tried
C24_Witness ==
    /\ dca.pc = "returned"
    /\ dca.num_orders = 4
    /\ Cardinality(OrderCalls) = 3
    /\ Len(dca.result) = 2

-----------------------------------------------------------------------------
(* AsyncCache *)

MaxCacheClock == 4

CacheKeys == {"a", "b"}
CacheValues == {1, 2}
Ttls == {1, 2}
\* what get returns for None
NoValue == 0
Absent == [present |-> FALSE, value |-> NoValue, timestamp |-> NoTime]

\* time.time() - timestamp < self.ttl
Unexpired_inclusive(entry, t, ttl) == t - entry.timestamp <= ttl
Unexpired(entry, t, ttl) == t - entry.timestamp < ttl

\* the cache after construction; last: the last operation, the cache it found and
\* what it returned
NewCache(ttl) ==
    [ttl |-> ttl, now |-> 0, cache |-> [k \in CacheKeys |-> Absent],
     last |-> [op |-> "init", key |-> "a", result |-> NoValue,
               found |-> [k \in CacheKeys |-> Absent]]]

AsyncCacheGet(key) ==
    /\ LET entry == cacheop.cache[key]
           hit == entry.present /\ Unexpired(entry, cacheop.now, cacheop.ttl)
       IN  cacheop' = [cacheop EXCEPT
                !.cache = IF entry.present /\ ~hit THEN [@ EXCEPT ![key] = Absent] ELSE @,
                !.last = [op |-> "get", key |-> key, found |-> cacheop.cache,
                          result |-> IF hit THEN entry.value ELSE NoValue]]
    /\ UNCHANGED <<fcall, fresult, run, dca, sess, mon, tradingVars, validateVars,
                   clientVars, otherVars, moreVars>>

AsyncCacheSet(key, value) ==
    /\ cacheop' = [cacheop EXCEPT
            !.cache[key] = [present |-> TRUE, value |-> value, timestamp |-> cacheop.now],
            !.last = [op |-> "set", key |-> key, found |-> cacheop.cache, result |-> NoValue]]
    /\ UNCHANGED <<fcall, fresult, run, dca, sess, mon, tradingVars, validateVars,
                   clientVars, otherVars, moreVars>>

AsyncCacheClear ==
    /\ cacheop' = [cacheop EXCEPT
            !.cache = [k \in CacheKeys |-> Absent],
            !.last = [op |-> "clear", key |-> "a", found |-> cacheop.cache, result |-> NoValue]]
    /\ UNCHANGED <<fcall, fresult, run, dca, sess, mon, tradingVars, validateVars,
                   clientVars, otherVars, moreVars>>

\* time.time() moves on
CacheTick ==
    /\ cacheop.now < MaxCacheClock
    /\ cacheop' = [cacheop EXCEPT
            !.now = @ + 1,
            !.last = [op |-> "tick", key |-> "a", found |-> cacheop.cache, result |-> NoValue]]
    /\ UNCHANGED <<fcall, fresult, run, dca, sess, mon, tradingVars, validateVars,
                   clientVars, otherVars, moreVars>>

CacheInit ==
    /\ \E ttl \in Ttls : cacheop = NewCache(ttl)
    /\ fcall = "none" /\ fresult = "none" /\ run = "none" /\ dca = "none"
    /\ sess = "none" /\ mon = "none"
    /\ callers = {}
    /\ MoreIdle
    /\ TradingIdle /\ ValidateIdle /\ ClientIdle /\ OtherIdle

CacheNext ==
    \/ \E key \in CacheKeys : AsyncCacheGet(key)
    \/ \E key \in CacheKeys : \E value \in CacheValues : AsyncCacheSet(key, value)
    \/ AsyncCacheClear
    \/ CacheTick

SpecCache == CacheInit /\ [][CacheNext]_vars

\* C25: a get before the entry's set time plus ttl returns the value that was set
\* and keeps the entry; a get at or after that time returns None and removes the
\* entry; an entry leaves the cache only by such a get or by clear.
C25_EntryLivesForTtl ==
    /\ cacheop.last.op = "get" =>
          LET was == cacheop.last.found[cacheop.last.key]
          IN  IF was.present /\ cacheop.now < was.timestamp + cacheop.ttl
              THEN cacheop.last.result = was.value /\ cacheop.cache[cacheop.last.key] = was
              ELSE cacheop.last.result = NoValue /\ ~cacheop.cache[cacheop.last.key].present
    /\ \A k \in CacheKeys :
          cacheop.last.found[k].present /\ ~cacheop.cache[k].present =>
              \/ cacheop.last.op = "clear"
              \/ /\ cacheop.last.op = "get" /\ cacheop.last.key = k
                 /\ cacheop.now >= cacheop.last.found[k].timestamp + cacheop.ttl

\* a get exactly ttl after the set found the entry, returned None and removed it
C25_Witness ==
    /\ cacheop.last.op = "get"
    /\ cacheop.last.found[cacheop.last.key].present
    /\ cacheop.now = cacheop.last.found[cacheop.last.key].timestamp + cacheop.ttl
    /\ cacheop.last.result = NoValue
    /\ ~cacheop.cache[cacheop.last.key].present

-----------------------------------------------------------------------------
(* Cancellation of a caller inside _rate_limit *)

\* `async with self._request_lock` left by CancelledError: __aexit__ releases the
\* lock if the caller holds it; a caller still queued for it never held it
LockAfterCancel_kept(c, lock) == lock
LockAfterCancel(c, lock) == IF lock = c THEN NoTask ELSE lock

\* the task of a caller that waits inside _rate_limit is cancelled: CancelledError
\* is raised at its await (lock.acquire, line 70, or asyncio.sleep, line 74) and
\* leaves _rate_limit and _request; line 75 is not reached
CancelCaller(c) ==
    /\ req[c].pc \in {"lock", "sleep"}
    /\ req' = [req EXCEPT ![c] = [@ EXCEPT !.pc = "done", !.outcome = "CancelledError"]]
    /\ _request_lock' = LockAfterCancel(c, _request_lock)
    /\ UNCHANGED <<now, _last_request_time, session, stamps, max_retries,
                   callers, validateVars, otherVars, task, strat, _order_lock, active_orders,
                   position_tracker, exchange, market_price, laterVars>>

\* the callers are followed through _rate_limit: to its end, or to their cancellation
CancelNext ==
    \/ \E c \in ClientCallers : Request(c)
    \/ \E c \in ClientCallers : AcquireRequestLock(c)
    \/ \E c \in ClientCallers : RateLimitWake(c)
    \/ \E c \in ClientCallers : CallAgain(c)
    \/ \E c \in ClientCallers : CancelCaller(c)
    \/ Tick

SpecCancel == ClientInit /\ [][CancelNext]_vars

CancelledNow(c) == req[c].outcome # "CancelledError" /\ req'[c].outcome = "CancelledError"

\* C26: cancelling a caller that is queued for _request_lock or sleeps while it
\* holds it leaves the lock free of that caller and _last_request_time as it was;
\* the lock is only ever held by a caller that sleeps inside _rate_limit, so the
\* other callers get it, and the values they write to _last_request_time are at
\* least rate_limit_delay apart.
C26_CancelLeavesLockFree ==
    /\ [][\A c \in ClientCallers : CancelledNow(c) =>
              /\ _request_lock' # c
              /\ _request_lock = c => _request_lock' = NoTask
              /\ _request_lock # c => _request_lock' = _request_lock
              /\ _last_request_time' = _last_request_time
              /\ stamps' = stamps]_vars
    /\ [](\A c \in ClientCallers : _request_lock = c => req[c].pc = "sleep")
    /\ [](\A i \in 1..(Len(stamps) - 1) : stamps[i + 1] - stamps[i] >= RateLimitDelay)
    /\ [](stamps # <<>> => _last_request_time = stamps[Len(stamps)])

\* a caller was cancelled in its sleep, and another one, queued behind it, has
\* since written _last_request_time
C26_Witness ==
    /\ req["a"].outcome = "CancelledError"
    /\ req["b"].outcome = "passed"
    /\ Len(stamps) >= 2
    /\ _request_lock = NoTask

-----------------------------------------------------------------------------
(* AsyncBinanceClient: connect, close and the session _request opens *)

MaxSessions == 4

Closers == {"x", "y"}
\* self.session = None
NoSession == 0

\* session: self.session, NoSession or the number of a ClientSession; created: how
\* many sessions were constructed; open: those not closed; closing: per close
\* call that is suspended at `await self.session.close()`, TRUE; used: the session
\* the last _request sent its attempt on
NewClient ==
    [session |-> NoSession, created |-> 0, open |-> {}, closing |-> [k \in Closers |-> FALSE],
     used |-> NoSession]

\* connect, lines 38-50: no await, one step
Connected(s) ==
    IF s.session = NoSession
    THEN [s EXCEPT !.session = s.created + 1, !.created = @ + 1, !.open = @ \cup {s.created + 1}]
    ELSE s

Connect ==
    /\ sess.created < MaxSessions
    /\ sess' = Connected(sess)
    /\ UNCHANGED <<fcall, fresult, run, dca, cacheop, mon, tradingVars, validateVars,
                   clientVars, otherVars, moreVars>>

\* _request after _rate_limit, lines 84-98: `if not self.session: await self.connect()`,
\* then self.session.request
RequestOpens ==
    /\ sess.created < MaxSessions
    /\ sess' = [Connected(sess) EXCEPT !.used = Connected(sess).session]
    /\ UNCHANGED <<fcall, fresult, run, dca, cacheop, mon, tradingVars, validateVars,
                   clientVars, otherVars, moreVars>>

\* close, lines 54-55: with a session, session.close() is called on it and awaited
CloseBegin(k) ==
    /\ ~sess.closing[k]
    /\ sess' = IF sess.session = NoSession THEN sess
               ELSE [sess EXCEPT !.open = @ \ {sess.session}, !.closing[k] = TRUE]
    /\ UNCHANGED <<fcall, fresult, run, dca, cacheop, mon, tradingVars, validateVars,
                   clientVars, otherVars, moreVars>>

\* close, line 56, once the await is over: self.session = None
CloseEnd(k) ==
    /\ sess.closing[k]
    /\ sess' = [sess EXCEPT !.session = NoSession, !.closing[k] = FALSE]
    /\ UNCHANGED <<fcall, fresult, run, dca, cacheop, mon, tradingVars, validateVars,
                   clientVars, otherVars, moreVars>>

SessionInit ==
    /\ sess = NewClient
    /\ fcall = "none" /\ fresult = "none" /\ run = "none" /\ dca = "none"
    /\ cacheop = "none" /\ mon = "none"
    /\ callers = {}
    /\ MoreIdle
    /\ TradingIdle /\ ValidateIdle /\ ClientIdle /\ OtherIdle

SessionNext ==
    \/ Connect
    \/ RequestOpens
    \/ \E k \in Closers : CloseBegin(k)
    \/ \E k \in Closers : CloseEnd(k)

SpecSession == SessionInit /\ [][SessionNext]_vars

\* C27: whatever the interleaving of connect, close and _request on one client,
\* at most one session is open at a time, and an open session is the one
\* self.session holds.
C27_AtMostOneOpenSession ==
    /\ Cardinality(sess.open) <= 1
    /\ \A n \in sess.open : sess.session = n

-----------------------------------------------------------------------------
(* MarketDataService: subscribe_to_price_updates and _monitor_price *)

MaxIntervals == 3
MaxSubscribers == 2

MonPrices == {1, 2}
\* last_price = None
NoPrice == 0

\* _running and the number of callbacks in _subscribers[symbol]; known: the symbol
\* is in _monitoring_tasks; pc: the monitor task of the symbol ("none": no task,
\* "created": not yet run, "price": in get_current_price, "sleep", "ended"); elapsed: polling intervals since the
\* first subscription; invoked: the (current_price, last_price) the callbacks
\* were called with; seen: the prices get_current_price returned
NewService ==
    [_running |-> FALSE, subscribers |-> 0, known |-> FALSE, pc |-> "none", last_price |-> NoPrice,
     wake |-> 0, elapsed |-> 0, invoked |-> <<>>, seen |-> {}]

\* `if last_price is not None and current_price != last_price`
Notifies(last_price, current_price) == last_price # NoPrice /\ current_price # last_price

\* the head of the loop: `while self._running and symbol in self._subscribers`,
\* then the call of get_current_price
LoopHead(m) ==
    IF m._running /\ m.subscribers > 0 THEN [m EXCEPT !.pc = "price"] ELSE [m EXCEPT !.pc = "ended"]

\* MarketDataService.start
MonStart ==
    /\ ~mon._running
    /\ mon' = [mon EXCEPT !._running = TRUE]
    /\ UNCHANGED <<fcall, fresult, run, dca, cacheop, sess, tradingVars, validateVars,
                   clientVars, otherVars, moreVars>>

\* subscribe_to_price_updates: the callback is appended, and the monitor task is
\* created unless the symbol has one
MonSubscribe ==
    /\ mon.subscribers < MaxSubscribers
    /\ mon' = IF mon.known THEN [mon EXCEPT !.subscribers = @ + 1]
               ELSE [mon EXCEPT !.subscribers = @ + 1, !.known = TRUE, !.pc = "created",
                                !.last_price = NoPrice]
    /\ UNCHANGED <<fcall, fresult, run, dca, cacheop, sess, tradingVars, validateVars,
                   clientVars, otherVars, moreVars>>

\* the monitor task runs for the first time
MonitorBegin ==
    /\ mon.pc = "created"
    /\ mon' = LoopHead(mon)
    /\ UNCHANGED <<fcall, fresult, run, dca, cacheop, sess, tradingVars, validateVars,
                   clientVars, otherVars, moreVars>>

\* get_current_price returns: the callbacks are called if the price changed, then
\* the task sleeps for one interval
PriceReply(current_price) ==
    /\ mon.pc = "price"
    /\ LET calls == IF Notifies(mon.last_price, current_price)
                    THEN [k \in 1..mon.subscribers |-> <<current_price, mon.last_price>>]
                    ELSE <<>>
       IN  mon' = [mon EXCEPT !.invoked = @ \o calls, !.last_price = current_price,
                              !.seen = @ \cup {current_price},
                              !.pc = "sleep", !.wake = mon.elapsed + 1]
    /\ UNCHANGED <<fcall, fresult, run, dca, cacheop, sess, tradingVars, validateVars,
                   clientVars, otherVars, moreVars>>

\* get_current_price raises: the error is logged and the task sleeps
PriceRaises ==
    /\ mon.pc = "price"
    /\ mon' = [mon EXCEPT !.pc = "sleep", !.wake = mon.elapsed + 1]
    /\ UNCHANGED <<fcall, fresult, run, dca, cacheop, sess, tradingVars, validateVars,
                   clientVars, otherVars, moreVars>>

\* one polling interval passes
MonTick ==
    /\ mon.pc # "none"
    /\ mon.elapsed < MaxIntervals
    /\ mon' = [mon EXCEPT !.elapsed = @ + 1]
    /\ UNCHANGED <<fcall, fresult, run, dca, cacheop, sess, tradingVars, validateVars,
                   clientVars, otherVars, moreVars>>

\* asyncio.sleep(interval) is over: back to the head of the loop
MonSleepWake ==
    /\ mon.pc = "sleep"
    /\ mon.elapsed >= mon.wake
    /\ mon' = LoopHead(mon)
    /\ UNCHANGED <<fcall, fresult, run, dca, cacheop, sess, tradingVars, validateVars,
                   clientVars, otherVars, moreVars>>

\* MarketDataService.stop: the task is cancelled and awaited, the subscribers are
\* dropped
MonStop ==
    /\ mon._running \/ mon.known \/ mon.subscribers > 0
    /\ mon' = [mon EXCEPT !._running = FALSE, !.subscribers = 0, !.known = FALSE,
                          !.pc = IF @ = "none" THEN "none" ELSE "ended"]
    /\ UNCHANGED <<fcall, fresult, run, dca, cacheop, sess, tradingVars, validateVars,
                   clientVars, otherVars, moreVars>>

MonInit ==
    /\ mon = NewService
    /\ fcall = "none" /\ fresult = "none" /\ run = "none" /\ dca = "none"
    /\ cacheop = "none" /\ sess = "none"
    /\ callers = {}
    /\ MoreIdle
    /\ TradingIdle /\ ValidateIdle /\ ClientIdle /\ OtherIdle

MonNext ==
    \/ MonStart
    \/ MonSubscribe
    \/ MonitorBegin
    \/ \E current_price \in MonPrices : PriceReply(current_price)
    \/ PriceRaises
    \/ MonTick
    \/ MonSleepWake
    \/ MonStop

SpecMon == MonInit /\ [][MonNext]_vars

\* C28: once three polling intervals have passed since the subscription, with a
\* gateway that returned the same price at every poll, the callback has been
\* invoked at least once.
C28_CallbackWithinThreeIntervals ==
    (mon.pc # "none" /\ mon.elapsed >= 3 /\ Cardinality(mon.seen) <= 1) => mon.invoked # <<>>

-----------------------------------------------------------------------------
(* MarketDataService.detect_price_breakout *)

MaxKlines == 3
MaxKlinePrice == 3

\* the klines get_klines returns: low_price <= close_price <= high_price
KlineSet ==
    {k \in [high_price : 1..MaxKlinePrice, low_price : 1..MaxKlinePrice,
            close_price : 1..MaxKlinePrice] :
        k.low_price <= k.close_price /\ k.close_price <= k.high_price}
\* breakout_threshold, in hundredths
Thresholds == {0, 50}
BreakoutCalls ==
    [klines : UNION {[1..n -> KlineSet] : n \in 0..MaxKlines},
     lookback_periods : 1..(MaxKlines - 1),
     breakout_threshold : Thresholds]

\* klines[-lookback_periods:]
Window(c) == LastN(c.klines, c.lookback_periods)
\* max(recent_highs), min(recent_lows)
Resistance(c) ==
    CHOOSE h \in {Window(c)[i].high_price : i \in 1..Len(Window(c))} :
        \A i \in 1..Len(Window(c)) : Window(c)[i].high_price <= h
Support(c) ==
    CHOOSE l \in {Window(c)[i].low_price : i \in 1..Len(Window(c))} :
        \A i \in 1..Len(Window(c)) : Window(c)[i].low_price >= l

\* detect_price_breakout, lines 270-287
DetectPriceBreakout(c) ==
    LET current_price == c.klines[Len(c.klines)].close_price
    IN  IF Len(c.klines) < c.lookback_periods + 1 THEN "None"
        ELSE IF current_price * 100 > Resistance(c) * (100 + c.breakout_threshold)
             THEN "BULLISH_BREAKOUT"
        ELSE IF current_price * 100 < Support(c) * (100 - c.breakout_threshold)
             THEN "BEARISH_BREAKOUT"
        ELSE "None"

BreakoutInit ==
    /\ fcall \in BreakoutCalls
    /\ fresult = NotReturned
    /\ run = "none" /\ dca = "none" /\ cacheop = "none" /\ sess = "none" /\ mon = "none"
    /\ callers = {}
    /\ MoreIdle
    /\ TradingIdle /\ ValidateIdle /\ ClientIdle /\ OtherIdle

Detect ==
    /\ fresult = NotReturned
    /\ fresult' = [returned |-> DetectPriceBreakout(fcall)]
    /\ UNCHANGED <<fcall, run, dca, cacheop, sess, mon, tradingVars, validateVars,
                   clientVars, otherVars, moreVars>>

SpecBreakout == BreakoutInit /\ [][Detect]_vars

Enough(c) == Len(c.klines) >= c.lookback_periods + 1

\* C29: with enough klines, a latest close above the highest high of the lookback
\* window by more than the threshold gives BULLISH_BREAKOUT and one below the
\* lowest low by more than the threshold gives BEARISH_BREAKOUT; and there are
\* well-formed klines and a threshold >= 0 for which each of the two is returned.
C29_BreakoutsDetected ==
    /\ (fresult # NotReturned /\ Enough(fcall)) =>
          LET current_price == fcall.klines[Len(fcall.klines)].close_price
          IN  /\ current_price * 100 > Resistance(fcall) * (100 + fcall.breakout_threshold)
                    => fresult.returned = "BULLISH_BREAKOUT"
              /\ current_price * 100 < Support(fcall) * (100 - fcall.breakout_threshold)
                    => fresult.returned = "BEARISH_BREAKOUT"
    /\ \E c \in BreakoutCalls : DetectPriceBreakout(c) = "BULLISH_BREAKOUT"
    /\ \E c \in BreakoutCalls : DetectPriceBreakout(c) = "BEARISH_BREAKOUT"

-----------------------------------------------------------------------------
(* AsyncBinanceClient._generate_signature *)

MaxParams == 2

\* hashlib.sha256: digest_size and block_size, in bytes
Sha256DigestSize == 32
Sha256BlockSize == 64

ParamKeys == {"a", "b"}
\* parameter values: the int 1 and the strings "1", "2", "1 2", "1+2"
PyValues ==
    {[type |-> "int", text |-> "1"], [type |-> "str", text |-> "1"],
     [type |-> "str", text |-> "2"], [type |-> "str", text |-> "1 2"],
     [type |-> "str", text |-> "1+2"]}
\* a dict, as its items in insertion order
ParamDicts ==
    {p \in UNION {[1..n -> [key : ParamKeys, value : PyValues]] : n \in 0..MaxParams} :
        \A i, j \in 1..Len(p) : i # j => p[i].key # p[j].key}
\* api_secret, as its utf-8 bytes: "k", "k\x00", "j"
Secrets == {<<107>>, <<107, 0>>, <<106>>}
SignCalls == [p1 : ParamDicts, s1 : Secrets, p2 : ParamDicts, s2 : Secrets]

\* quote_plus of str(value)
QuotePlus(text) ==
    CASE text = "1 2" -> "1+2"
      [] text = "1+2" -> "1%2B2"
      [] OTHER -> text

\* urlencode(params, True): key=value joined by &, as the list of its pieces
RECURSIVE urlencode(_)
urlencode(params) ==
    IF params = <<>> THEN <<>>
    ELSE LET item == params[Len(params)]
             front == SubSeq(params, 1, Len(params) - 1)
         IN  (IF front = <<>> THEN <<>> ELSE urlencode(front) \o <<"&">>)
             \o <<item.key, "=", QuotePlus(item.value.text)>>

\* hmac.new: a key shorter than the block is padded with zero bytes
PadKey_raw(key) == key
PadKey(key) == key \o [i \in 1..(Sha256BlockSize - Len(key)) |-> 0]

\* hmac.new(...).hexdigest() for a hash without collisions: the digest stands for
\* the padded key and the message it was computed from, and is written with two
\* hexadecimal digits per byte
HexDigest(key, msg) == [key |-> PadKey(key), msg |-> msg, hexlen |-> 2 * Sha256DigestSize]

\* _generate_signature
GenerateSignature(params, secret) == HexDigest(secret, urlencode(params))

SignInit ==
    /\ fcall \in SignCalls
    /\ fresult = NotReturned
    /\ run = "none" /\ dca = "none" /\ cacheop = "none" /\ sess = "none" /\ mon = "none"
    /\ callers = {}
    /\ MoreIdle
    /\ TradingIdle /\ ValidateIdle /\ ClientIdle /\ OtherIdle

\* two calls of _generate_signature
Sign ==
    /\ fresult = NotReturned
    /\ fresult' = [returned |-> "both",
                   first |-> GenerateSignature(fcall.p1, fcall.s1),
                   second |-> GenerateSignature(fcall.p2, fcall.s2)]
    /\ UNCHANGED <<fcall, run, dca, cacheop, sess, mon, tradingVars, validateVars,
                   clientVars, otherVars, moreVars>>

SpecSign == SignInit /\ [][Sign]_vars

Items(p) == {p[i] : i \in 1..Len(p)}
\* the items in insertion order, each value as str() writes it
Texts(p) == [i \in 1..Len(p) |-> <<p[i].key, p[i].value.text>>]
RECURSIVE StripNul(_)
StripNul(s) ==
    IF s # <<>> /\ s[Len(s)] = 0 THEN StripNul(SubSeq(s, 1, Len(s) - 1)) ELSE s

-----------------------------------------------------------------------------
(* Further claims about the order-execution service *)

\* C31: every submission of an order follows, within the same attempt of the same
\* placement, a passed balance check: the step that sends it starts where
\* _validate_balance has answered (or, for a market SELL, where the price read
\* after the passed check has answered).
C31_SubmissionAfterBalanceCheck ==
    [][\A t \in Tasks : task'[t].sent > task[t].sent => task[t].pc \in {"validate", "price"}]_vars


Protective == {"stop", "profit"}
Running == {"created", "lock", "validate", "price", "submit", "backoff"}

InsideOrderLock == {"validate", "price", "submit"}

\* C37: _order_lock is held only by a placement that is at a gateway call inside
\* its body: never by one that has returned or failed, nor during the backoff
\* wait between attempts; so a placement that waits for the lock waits for a
\* holder whose gateway call is pending, and no placement makes more than
\* max_retries attempts: while the gateway answers, every call comes to its end.
C37_OrderLockNeverStuck ==
    /\ \A t \in Tasks : _order_lock = t => task[t].pc \in InsideOrderLock
    /\ \A t \in Tasks :
          task[t].pc = "lock" =>
              \/ _order_lock = NoTask
              \/ _order_lock \in Tasks /\ task[_order_lock].pc \in InsideOrderLock
    /\ \A t \in Tasks : task[t].attempt < MaxRetries
    /\ (strat.pc = "gather" /\ task["profit"].pc = "lock") => _order_lock # "strat"

\* one caller sleeps between two attempts while the other, which had to wait for
\* the lock, is inside it
C37_Witness ==
    /\ task["user"].pc = "backoff"
    /\ _order_lock = "user2"
    /\ task["user2"].pc = "submit"
    /\ task["user2"].attempt >= 1


-----------------------------------------------------------------------------
(* Further claims about the strategy loop *)

\* a turn of the run loop: the clock and the stored averages are as they were
IsLoopTurn ==
    /\ run'.now = run.now /\ run'.cross = run.cross
    /\ run'.shown = run.shown /\ run'.crossed = run.crossed

\* C38: a turn of the run loop whose generate_signal returned a signal other than
\* last_signal calls execute_signal with it, and whatever becomes of the order in
\* that call, last_signal is that signal after the turn.
C38_LastSignalFollowsDispatch ==
    [][(IsLoopTurn /\ run'.eval.result \in {"BUY", "SELL"}
            /\ run'.eval.result # run.last_signal)
        => run'.last_signal = run'.eval.result]_vars


\* C32: once generate_signal has detected the crossing the stored averages show,
\* and as long as no tick has come, no later evaluation detects it again, however
\* much time has passed (stated for the first crossing of the run).
C32_OneSignalPerFlip ==
    [][(IsLoopTurn /\ run.shown = 1 /\ 1 \in run.seen)
        => run'.last_crossover_time = run.last_crossover_time]_vars

InDebounce(r) ==
    r.last_crossover_time # NoTime /\ r.now - r.last_crossover_time < r.min_crossover_interval

\* C39: last_crossover_time is set at every detection of a crossover, at the time
\* of the detection and whatever the confirmation filters make of it, and only
\* then; for min_crossover_interval after it generate_signal returns no signal.
C39_DebounceStartsAtDetection ==
    /\ [][(IsLoopTurn /\ run.cross # "none" /\ ~InDebounce(run))
            => run'.last_crossover_time = run.now]_vars
    /\ [][run'.last_crossover_time # run.last_crossover_time
            => /\ run'.last_crossover_time = run.now
               /\ run.cross # "none" /\ ~InDebounce(run)]_vars
    /\ [][(IsLoopTurn /\ InDebounce(run)) => run'.eval.result = "None"]_vars

\* a detected crossover was never handed on, and an evaluation inside the window
\* it opened returned no signal
C39_Witness ==
    /\ run.eval.early /\ run.eval.result = "None"
    /\ run.last_crossover_time # NoTime /\ run.now > run.last_crossover_time
    /\ run.last_signal = "None" /\ run.handed = <<>>
    /\ run.cross # "none"


-----------------------------------------------------------------------------
(* Further claims about the moving averages *)

\* the order of short and long average: -1 below, 0 equal, 1 above
Order(short, long) == IF short < long THEN -1 ELSE IF short > long THEN 1 ELSE 0
\* the stored pairs differ in order: the latest update of the averages flipped it
Flipped(m) ==
    Order(m.last_short_ma, m.last_long_ma) # Order(m.current_short_ma, m.current_long_ma)
\* a step of generate_signal
IsEvaluation ==
    signal' # signal /\ signal'.ticks = signal.ticks /\ signal'.started = signal.started

\* the averages of the first n prices of the window
OrderAt(n) ==
    Order(Mean(SubSeq(price_history, 1, n), periods.short_period),
          Mean(SubSeq(price_history, 1, n), periods.long_period))

\* C40: every update of the averages moves the current pair to the previous one,
\* so a flip shows in the stored pairs only until the next update; an evaluation
\* of generate_signal returns a signal only if the latest update flipped the
\* order: after a further update that did not flip it, none is returned.
C40_FlipSeenOnlyUntilNextUpdate ==
    /\ [][(signal'.ticks = signal.ticks + 1 /\ Len(price_history') >= periods.long_period)
            => /\ ma'.last_short_ma = ma.current_short_ma
               /\ ma'.last_long_ma = ma.current_long_ma]_vars
    /\ [][(IsEvaluation /\ ~Flipped(ma)) => signal'.result \notin {"BUY", "SELL"}]_vars

\* the tick after the start flipped the order, the next one kept it, and the
\* evaluation that followed returned no signal: none was ever detected
C40_Witness ==
    /\ signal.ticks = 2 /\ Len(price_history) = periods.long_period + 2
    /\ OrderAt(periods.long_period) = 0
    /\ OrderAt(periods.long_period + 1) = 1
    /\ OrderAt(periods.long_period + 2) = 1
    /\ signal.evaluated /\ signal.seen = ma /\ signal.result = "None"
    /\ signal.last_crossover_time = NoTime


\* C35: price_history never holds more than 2 * max(short_period, long_period)
\* prices; a tick or closed-kline update leaves the window with the new price
\* last and, before it, the latest prices of the old window in their order: only
\* the oldest are dropped.
C35_WindowBounded ==
    /\ [](Len(price_history) <= 2 * (IF periods.short_period > periods.long_period
                                     THEN periods.short_period ELSE periods.long_period))
    /\ [][signal'.ticks = signal.ticks + 1 =>
            LET n == Len(price_history')
                old == Len(price_history)
            IN  /\ n = (IF old + 1 <= max_history THEN old + 1 ELSE max_history)
                /\ \A i \in 1..(n - 1) : price_history'[i] = price_history[old - (n - 1) + i]]_vars

\* the window is full and two updates have each dropped its oldest price
C35_Witness ==
    /\ Len(price_history) = max_history
    /\ signal.ticks = 2
    /\ price_history[max_history] # price_history[max_history - 1]


(***************************************************************************)
(* The manager's listeners and connection of one topic                     *)
(***************************************************************************)

MaxTopicListeners == 3
MaxTopicCalls == 5

\* callback=None
NoCallback == "None"

\* listeners: event_emitter._listeners of the topic's event; task: whether the
\* topic's stream is in _connection_tasks; calls: the calls made; last: the last one
NewManager == [listeners |-> <<>>, task |-> FALSE, calls |-> 0, last |-> "none"]

\* _ensure_connection: the maintenance task is created if the stream has none
EnsureConnection(m) == [m EXCEPT !.task = TRUE]

\* AsyncEventEmitter.on: the callback is appended to the event's list
Listening(m, cb) == [m EXCEPT !.listeners = Append(@, cb)]

\* subscribe_ticker(symbol, callback): the callback, if given, is registered, and
\* the connection is ensured whether or not one was given
SubscribeTicker(cb) ==
    /\ topic.calls < MaxTopicCalls
    /\ cb # NoCallback => Len(topic.listeners) < MaxTopicListeners
    /\ topic' = [EnsureConnection(IF cb # NoCallback THEN Listening(topic, cb) ELSE topic)
                    EXCEPT !.calls = @ + 1, !.last = "subscribe_ticker"]
    /\ UNCHANGED <<tracked, fcall, fresult, run, dca, cacheop, sess, mon, tradingVars,
                   validateVars, clientVars, otherVars>>

\* on(event, callback)
ManagerOn(cb) ==
    /\ topic.calls < MaxTopicCalls
    /\ Len(topic.listeners) < MaxTopicListeners
    /\ topic' = [Listening(topic, cb) EXCEPT !.calls = @ + 1, !.last = "on"]
    /\ UNCHANGED <<tracked, fcall, fresult, run, dca, cacheop, sess, mon, tradingVars,
                   validateVars, clientVars, otherVars>>

\* off(event, callback): remove_listener and nothing else; a callback that is
\* not registered is ignored
ManagerOff(cb) ==
    /\ topic.calls < MaxTopicCalls
    /\ topic' = [topic EXCEPT !.listeners = RemoveFirst(@, cb), !.calls = @ + 1, !.last = "off"]
    /\ UNCHANGED <<tracked, fcall, fresult, run, dca, cacheop, sess, mon, tradingVars,
                   validateVars, clientVars, otherVars>>

\* unsubscribe(stream): _close_connection cancels and forgets the task
TopicUnsubscribe ==
    /\ topic.calls < MaxTopicCalls
    /\ topic' = [topic EXCEPT !.task = FALSE, !.calls = @ + 1, !.last = "unsubscribe"]
    /\ UNCHANGED <<tracked, fcall, fresult, run, dca, cacheop, sess, mon, tradingVars,
                   validateVars, clientVars, otherVars>>

TopicInit ==
    /\ topic = NewManager
    /\ tracked = "none"
    /\ fcall = "none" /\ fresult = "none" /\ run = "none" /\ dca = "none"
    /\ cacheop = "none" /\ sess = "none" /\ mon = "none"
    /\ callers = {}
    /\ TradingIdle /\ ValidateIdle /\ ClientIdle /\ OtherIdle

TopicNext ==
    \/ \E cb \in Callbacks \cup {NoCallback} : SubscribeTicker(cb)
    \/ \E cb \in Callbacks : ManagerOn(cb)
    \/ \E cb \in Callbacks : ManagerOff(cb)
    \/ TopicUnsubscribe

SpecTopic == TopicInit /\ [][TopicNext]_vars

\* C34: the topic has a maintenance task only while its event has a listener
C34_ConnectionOnlyWhileListened == topic.task => topic.listeners # <<>>


(***************************************************************************)
(* The orders the service keeps in active_orders                           *)
(***************************************************************************)

MaxTracked == 3

OrderIds == 1..MaxTracked

\* OrderStatus
OrderStatus ==
    {"NEW", "PARTIALLY_FILLED", "FILLED", "CANCELED", "PENDING_CANCEL", "REJECTED", "EXPIRED"}
Terminal == {"FILLED", "CANCELED", "REJECTED", "EXPIRED"}
\* the orders the exchange still lets one cancel
Open == {"NEW", "PARTIALLY_FILLED"}

\* the status in the exchange's reply to a placement, by the kind of the order
PlacementStatuses(kind) ==
    IF kind = "market" THEN {"FILLED", "EXPIRED"}
    ELSE IF kind = "limit" THEN {"NEW", "PARTIALLY_FILLED", "FILLED"}
    ELSE {"NEW"}

Kinds == {"market", "limit", "stop_loss"}

\* exch: the status of each order at the exchange, "none" before it is placed;
\* active: active_orders, per order id the status of the Order object kept there
\* or "absent"; placed: how many orders were placed; seen: what the last
\* get_order_status returned; cancelled: what the last cancel call returned
NewTradingService ==
    [exch |-> [id \in OrderIds |-> "none"], active |-> [id \in OrderIds |-> "absent"],
     placed |-> 0, seen |-> "none", cancelled |-> "none"]

\* self.active_orders[order.order_id] = order, the Order parsed from the reply
Track(s, id, status) ==
    [s EXCEPT !.exch[id] = status, !.active[id] = status, !.placed = id]

\* place_market_order, place_limit_order, place_stop_loss_order: the order of
\* the exchange's reply is kept in active_orders, whatever its status
PlaceOrder(kind, status) ==
    /\ tracked.placed < MaxTracked
    /\ status \in PlacementStatuses(kind)
    /\ tracked' = Track(tracked, tracked.placed + 1, status)
    /\ UNCHANGED <<topic, fcall, fresult, run, dca, cacheop, sess, mon, tradingVars,
                   validateVars, clientVars, otherVars>>

\* the exchange fills, expires or rejects an open order
ExchangeMoves(id, status) ==
    /\ tracked.exch[id] \in Open
    /\ status \in {"PARTIALLY_FILLED", "FILLED", "EXPIRED", "REJECTED"}
    /\ status # tracked.exch[id]
    /\ tracked' = [tracked EXCEPT !.exch[id] = status]
    /\ UNCHANGED <<topic, fcall, fresult, run, dca, cacheop, sess, mon, tradingVars,
                   validateVars, clientVars, otherVars>>

\* get_order_status: the exchange's answer is returned, active_orders is not touched
GetOrderStatus(id) ==
    /\ tracked.exch[id] # "none"
    /\ tracked.seen # tracked.exch[id]
    /\ tracked' = [tracked EXCEPT !.seen = tracked.exch[id]]
    /\ UNCHANGED <<topic, fcall, fresult, run, dca, cacheop, sess, mon, tradingVars,
                   validateVars, clientVars, otherVars>>

\* cancel_order: the exchange cancels an open order and the order leaves
\* active_orders; for any other order the gateway raises and False is returned
CancelOrder(id) ==
    /\ tracked.exch[id] # "none"
    /\ IF tracked.exch[id] \in Open
       THEN tracked' = [tracked EXCEPT !.exch[id] = "CANCELED", !.active[id] = "absent",
                                       !.cancelled = "True"]
       ELSE tracked' = [tracked EXCEPT !.cancelled = "False"]
    /\ UNCHANGED <<topic, fcall, fresult, run, dca, cacheop, sess, mon, tradingVars,
                   validateVars, clientVars, otherVars>>

\* cancel_all_orders: the orders the exchange cancelled leave active_orders
CancelAllOrders ==
    /\ \E id \in OrderIds : tracked.exch[id] \in Open
    /\ tracked' = [tracked EXCEPT
            !.exch = [id \in OrderIds |-> IF @[id] \in Open THEN "CANCELED" ELSE @[id]],
            !.active = [id \in OrderIds |->
                            IF tracked.exch[id] \in Open THEN "absent" ELSE @[id]],
            !.cancelled = "all"]
    /\ UNCHANGED <<topic, fcall, fresult, run, dca, cacheop, sess, mon, tradingVars,
                   validateVars, clientVars, otherVars>>

OrdersInit ==
    /\ tracked = NewTradingService
    /\ topic = "none"
    /\ fcall = "none" /\ fresult = "none" /\ run = "none" /\ dca = "none"
    /\ cacheop = "none" /\ sess = "none" /\ mon = "none"
    /\ callers = {}
    /\ TradingIdle /\ ValidateIdle /\ ClientIdle /\ OtherIdle

OrdersNext ==
    \/ \E kind \in Kinds, status \in OrderStatus : PlaceOrder(kind, status)
    \/ \E id \in OrderIds, status \in OrderStatus : ExchangeMoves(id, status)
    \/ \E id \in OrderIds : GetOrderStatus(id)
    \/ \E id \in OrderIds : CancelOrder(id)
    \/ CancelAllOrders

SpecOrders == OrdersInit /\ [][OrdersNext]_vars

\* C33: no order of active_orders has a terminal status, neither in the Order
\* object kept there nor at the exchange
C33_NoTerminalOrderTracked ==
    \A id \in OrderIds :
        tracked.active[id] # "absent" =>
            /\ tracked.active[id] \notin Terminal
            /\ tracked.exch[id] \notin Terminal

====
